---- MODULE Spec2Model ----
(***************************************************************************)
(* SecureCloud AI Guardian: the risk scorer, the behavioural anomaly       *)
(* detector, the bounded event history and the automated response          *)
(* orchestrator of src/main.py, with the manual response trigger of        *)
(* src/securecloud_api2.py.                                                *)
(*                                                                         *)
(* Conventions.  Python strings are sequences of one-character strings,   *)
(* so that lower() and the f-string that builds the detector's key are     *)
(* computed, not assumed.  Scores are integers in hundredths (0.3 is 30).  *)
(* Times are integers in hours.  uuid4() is a fresh number.                *)
(***************************************************************************)
EXTENDS Integers, Sequences, FiniteSets, TLC

VARIABLES
    \* ---- risk scorer ----
    resource,           \* the CloudResource being scored, or NoResource
    ai_risk,            \* what assess_risk returned for it (-1: not called yet)
    \* ---- anomaly detector ----
    baseline_patterns,  \* BehavioralAnomalyDetector.baseline_patterns: key -> entry
    seen_pairs,         \* history: the (type, source) pairs is_anomaly was called with
    last_call,          \* history: the last is_anomaly call and what it returned
    \* ---- guardian and orchestrator ----
    security_events,    \* SecureCloudAIGuardian.security_events, a deque(maxlen)
    response_queue,     \* AutomatedResponseOrchestrator.response_queue
    active_responses,   \* AutomatedResponseOrchestrator.active_responses
    ingest_pc,          \* _process_security_events: "fetch", "events" or "sleep"
    ingest_provider,    \* index in ProviderOrder of the connector being read
    ingest_events,      \* the fetched records not yet processed
    drain_pc,           \* _automated_response_handler: "idle", "exec", "sleep", "error"
    drain_event,        \* what _execute_response is working on, or NoEvent
    drain_done,         \* the actions of drain_event executed so far, in order
    bg_tasks,           \* BackgroundTasks of the manual trigger that have not run yet
    next_event_id,      \* number of uuid4() event ids drawn so far
    next_response_id,   \* number of uuid4() response ids drawn so far
    \* ---- history variables of the orchestrator ----
    submitted,          \* event id -> number of handle_incident calls for it
    dequeued,           \* event id -> number of times process_queue has taken it
    manual_triggers,    \* number of manual triggers that found their event
    exec_log,           \* response id -> the event and the actions executed for it
    failures,           \* number of _execute_action calls that raised
    \* ---- the five monitoring loops, each seen as try / sleep / except / sleep ----
    loop_pc,            \* loop -> "cycle", "sleep" (after a cycle), "error" (after a caught exception)
    loop_sleep,         \* loop -> seconds of the sleep it is in (0 while in a cycle)
    coordinator,        \* start_monitoring: "running" while gather has not returned or raised
    \* ---- resource discovery: _monitor_cloud_resources, resource by resource ----
    resources_cache,    \* SecureCloudAIGuardian.resources_cache: provider -> list of resources
    disc_pc,            \* "start", "assess" (suspended in assess_risk), "sleep" or "error"
    disc_provider,      \* index in ProviderOrder of the provider being scored
    disc_index,         \* index in its list of the resource being scored
    disc_ai,            \* history: provider -> what assess_risk returned per resource (-1: nothing yet)
    disc_scored,        \* history: the <<provider, index>> scored in the current cycle
    disc_failed,        \* history: the <<provider, index>> whose assess_risk raised in the current cycle
    disc_cycles,        \* number of discovery cycles started
    \* ---- model health audit: _monitor_ai_model_health, model by model ----
    health_pc,          \* "start", "check" (suspended in check_model_health), "sleep" or "error"
    health_index,       \* index in ModelOrder of the model being checked
    health_metrics,     \* history: model -> the metrics its check returned in the current cycle
    health_failed,      \* history: the models whose check raised in the current cycle
    health_cycles,      \* number of health cycles started
    \* ---- threat intelligence: _generate_threat_intelligence ----
    active_threats,     \* SecureCloudAIGuardian.active_threats: pattern id -> pattern
    threat_pc,          \* "start", "analyze" (suspended in analyze_patterns) or "sleep"
    threat_recent,      \* recent_events, the list handed to analyze_patterns
    threat_patterns,    \* threat_patterns, what the last analyze_patterns call returned
    prev_patterns,      \* history: what the call before the last returned
    first_threats,      \* history: active_threats as the first refresh left it
    next_pattern_id,    \* number of pattern ids drawn so far
    refreshes,          \* number of refreshes completed
    \* ---- dashboard: get_dashboard_data ----
    dashboard,          \* what the last get_dashboard_data call returned, or NoSnapshot
    queries,            \* number of get_dashboard_data calls
    \* ---- AI analysis of events: _analyze_event_with_ai ----
    analysed,           \* history: event id -> times the analysis assigned ai_confidence and is_anomaly
    \* ---- presentation layer: securecloud_api2.py and api/index.py ----
    app,                \* the application that serves: "securecloud_api2" or "api_index"
    guardian_instance,  \* the module-level guardian: "None" or "guardian"
    monitoring_task,    \* the task running start_monitoring: "None" or "running"
    api_reply,          \* the reply to the last data query, or NoReply
    requests,           \* number of data queries answered
    \* ---- confidence of analysed events: _analyze_event_with_ai ----
    ingested,           \* number of events analysed and appended to a collected history
    \* ---- time: datetime.now(), and the event whose analysis is awaited ----
    clock,              \* datetime.now(), in ticks
    pending,            \* the event _process_security_events has built and is analysing, or NoEvent
    \* ---- websocket_events: one connected client ----
    ws_pc,              \* "closed", "poll" (about to compare the counts) or "sleep"
    last_event_count,   \* last_event_count of the handler
    ws_sent,            \* history: the ids sent to the client, in order
    ws_base             \* history: number of event ids drawn when the client connected

risk_vars == <<resource, ai_risk>>
anomaly_vars == <<baseline_patterns, seen_pairs, last_call>>
ingest_vars == <<ingest_pc, ingest_provider, ingest_events>>
drain_vars == <<drain_pc, drain_event, drain_done>>
guardian_vars ==
    <<security_events, response_queue, active_responses, ingest_vars, drain_vars,
      bg_tasks, next_event_id, next_response_id, submitted, dequeued,
      manual_triggers, exec_log, failures>>
loop_vars == <<loop_pc, loop_sleep, coordinator>>
disc_vars ==
    <<resources_cache, disc_pc, disc_provider, disc_index, disc_ai, disc_scored,
      disc_failed, disc_cycles>>
health_vars == <<health_pc, health_index, health_metrics, health_failed, health_cycles>>
threat_vars ==
    <<active_threats, threat_pc, threat_recent, threat_patterns, prev_patterns,
      first_threats, next_pattern_id, refreshes>>
dash_vars == <<dashboard, queries>>
analysis_vars == <<analysed>>
api_vars == <<app, guardian_instance, monitoring_task, api_reply, requests>>
conf_vars == <<ingested>>
timeline_vars == <<clock, pending>>
ws_vars == <<ws_pc, last_event_count, ws_sent, ws_base>>
beside_loops ==
    <<disc_vars, health_vars, threat_vars, dash_vars, analysis_vars, api_vars,
      conf_vars, timeline_vars, ws_vars>>
beside_disc ==
    <<loop_vars, health_vars, threat_vars, dash_vars, analysis_vars, api_vars,
      conf_vars, timeline_vars, ws_vars>>
beside_health ==
    <<loop_vars, disc_vars, threat_vars, dash_vars, analysis_vars, api_vars,
      conf_vars, timeline_vars, ws_vars>>
beside_threat ==
    <<loop_vars, disc_vars, health_vars, dash_vars, analysis_vars, api_vars,
      conf_vars, timeline_vars, ws_vars>>
beside_dash ==
    <<loop_vars, disc_vars, health_vars, threat_vars, analysis_vars, api_vars,
      conf_vars, timeline_vars, ws_vars>>
beside_analysis ==
    <<loop_vars, disc_vars, health_vars, threat_vars, dash_vars, api_vars,
      conf_vars, timeline_vars, ws_vars>>
beside_api ==
    <<loop_vars, disc_vars, health_vars, threat_vars, dash_vars, analysis_vars,
      conf_vars, timeline_vars, ws_vars>>
early_vars == <<loop_vars, disc_vars, health_vars, threat_vars, dash_vars, analysis_vars, api_vars>>
beside_conf == <<early_vars, timeline_vars, ws_vars>>
beside_timeline == <<early_vars, conf_vars, ws_vars>>
beside_ws == <<early_vars, conf_vars, timeline_vars>>
more_vars == <<early_vars, conf_vars, timeline_vars, ws_vars>>
vars == <<risk_vars, anomaly_vars, guardian_vars, more_vars>>

Min(a, b) == IF a <= b THEN a ELSE b

(***************************************************************************)
(* Strings                                                                 *)
(***************************************************************************)
UpperChars == <<"A","B","C","D","E","F","G","H","I","J","K","L","M",
                "N","O","P","Q","R","S","T","U","V","W","X","Y","Z">>
LowerChars == <<"a","b","c","d","e","f","g","h","i","j","k","l","m",
                "n","o","p","q","r","s","t","u","v","w","x","y","z">>

\* str.lower() on one character: an upper-case letter becomes its lower-case
\* letter, every other character is kept.
LowerChar(c) ==
    IF \E i \in DOMAIN UpperChars : UpperChars[i] = c
    THEN LowerChars[CHOOSE i \in DOMAIN UpperChars : UpperChars[i] = c]
    ELSE c

\* str.lower()
lower(s) == [i \in DOMAIN s |-> LowerChar(s[i])]

S_public == <<"p","u","b","l","i","c">>
S_open == <<"o","p","e","n">>
S_PUBLIC == <<"P","U","B","L","I","C">>
S_Open == <<"O","p","e","n">>
S_production == <<"p","r","o","d","u","c","t","i","o","n">>
S_publicly == <<"p","u","b","l","i","c","l","y">>

(***************************************************************************)
(* Risk scorer: SecureCloudAIGuardian._calculate_risk_score                *)
(***************************************************************************)
NoResource == [kind |-> "none"]

\* Tag values a discovered resource may carry.
TagValues == {S_public, S_PUBLIC, S_Open, S_production, S_publicly, <<>>}
TagKeys == {"Environment", "Access"}
TagMaps == UNION {[K -> TagValues] : K \in SUBSET TagKeys}

\* Hours between last_accessed and now: 30 days is 720 hours.
AgeHours == {-5, 0, 719, 720, 743, 744, 1080}

\* The instant of the scoring call, in hours.
Now == 2000

\* Values of ConfigurationDriftModel.assess_risk, uniform in [0.0, 0.5].
AiRiskValues == {0, 1, 19, 20, 21, 49, 50}

SecurityGroupLists == {<<>>, <<"sg-1">>, <<"sg-1", "sg-2">>}

Resources ==
    [kind : {"resource"},
     security_group_ids : SecurityGroupLists,
     tags : TagMaps,
     last_accessed : {Now - a : a \in AgeHours},
     risk_score : {0}]

\* timedelta.days: whole days, rounded down.
timedelta_days(hours) == hours \div 24

_check_public_access_case_sensitive(r) ==
    IF \E k \in DOMAIN r.tags : r.tags[k] \in {S_public, S_open}
    THEN 50
    ELSE 0

_check_public_access(r) ==
    IF \E k \in DOMAIN r.tags : lower(r.tags[k]) \in {S_public, S_open}
    THEN 50
    ELSE 0

\* sum(risk_factors) of the list the function builds
risk_factors_sum(r, now, ai) ==
    (IF r.security_group_ids = <<>> THEN 30 ELSE 0)
    + _check_public_access(r)
    + (IF timedelta_days(now - r.last_accessed) > 30 THEN 20 ELSE 0)
    + ai

_calculate_risk_score_uncapped(r, now, ai) == risk_factors_sum(r, now, ai)

_calculate_risk_score(r, now, ai) == Min(risk_factors_sum(r, now, ai), 100)

RiskInit == resource = NoResource /\ ai_risk = -1

\* A resource comes back from discover_resources with the default risk_score.
RiskDiscover ==
    /\ resource = NoResource
    /\ \E r \in Resources : resource' = r
    /\ ai_risk' = -1
    /\ UNCHANGED <<anomaly_vars, guardian_vars, more_vars>>

\* _monitor_cloud_resources lines 140-141: score it and store the score.
RiskScore ==
    /\ resource # NoResource
    /\ ai_risk = -1
    /\ \E ai \in AiRiskValues :
          /\ ai_risk' = ai
          /\ resource' = [resource EXCEPT !.risk_score = _calculate_risk_score(resource, Now, ai)]
    /\ UNCHANGED <<anomaly_vars, guardian_vars, more_vars>>

\* The next discovery cycle replaces what the cache held (line 136).
RiskNextCycle ==
    /\ resource # NoResource
    /\ ai_risk # -1
    /\ resource' = NoResource
    /\ ai_risk' = -1
    /\ UNCHANGED <<anomaly_vars, guardian_vars, more_vars>>

(***************************************************************************)
(* Anomaly detector: BehavioralAnomalyDetector.is_anomaly                  *)
(***************************************************************************)
S_LOGIN == <<"L","O","G","I","N">>
S_ATTEMPT == <<"A","T","T","E","M","P","T">>
S_LOGIN_ATTEMPT == S_LOGIN \o <<"_">> \o S_ATTEMPT
S_CONFIG_CHANGE == <<"C","O","N","F","I","G","_","C","H","A","N","G","E">>
S_ip == <<"1","0",".","0",".","0",".","7">>
S_ATTEMPT_ip == S_ATTEMPT \o <<"_">> \o S_ip

\* f"{event.event_type}_{event.source_ip}"
pattern_key(event_type, source_ip) == event_type \o <<"_">> \o source_ip

\* The value is_anomaly returns; coin is the outcome of np.random.random() > 0.8.
is_anomaly(patterns, e, coin) ==
    IF pattern_key(e.event_type, e.source_ip) \notin DOMAIN patterns
    THEN FALSE
    ELSE IF e.event_type \in {S_LOGIN_ATTEMPT} /\ e.severity = "CRITICAL"
         THEN TRUE
         ELSE coin

\* baseline_patterns after the call.  Of the entry {"count", "first_seen"} the
\* count is kept; first_seen is written once here and read nowhere.
is_anomaly_patterns(patterns, e) ==
    LET key == pattern_key(e.event_type, e.source_ip) IN
    IF key \notin DOMAIN patterns
    THEN [k \in DOMAIN patterns \cup {key} |->
             IF k = key THEN [count |-> 1] ELSE patterns[k]]
    ELSE [patterns EXCEPT ![key].count = @ + 1]

\* Occurrences of one key the model follows.
MaxCount == 2

NoCall == [kind |-> "none"]

\* The events is_anomaly is called with.
AnomalyEvents ==
    [event_type : {S_LOGIN_ATTEMPT, S_LOGIN, S_CONFIG_CHANGE},
     source_ip : {S_ip, S_ATTEMPT_ip},
     severity : {"MEDIUM", "CRITICAL"}]

AnomalyInit ==
    /\ baseline_patterns = <<>>
    /\ seen_pairs = {}
    /\ last_call = NoCall

\* One call of is_anomaly(event), from the sleep to the return.
IsAnomalyCall ==
    \E e \in AnomalyEvents, coin \in BOOLEAN :
        LET key == pattern_key(e.event_type, e.source_ip) IN
        /\ key \in DOMAIN baseline_patterns => baseline_patterns[key].count < MaxCount
        /\ baseline_patterns' = is_anomaly_patterns(baseline_patterns, e)
        /\ seen_pairs' = seen_pairs \cup {<<e.event_type, e.source_ip>>}
        /\ last_call' = [kind |-> "call",
                         event |-> e,
                         first_of_pair |-> <<e.event_type, e.source_ip>> \notin seen_pairs,
                         result |-> is_anomaly(baseline_patterns, e, coin)]
        /\ UNCHANGED <<risk_vars, more_vars, guardian_vars>>

(***************************************************************************)
(* Event history: security_events = deque(maxlen=10000)                    *)
(***************************************************************************)
\* maxlen of the deque (10000 in the program).
Capacity == 2

\* Events created in one run (ingested and platform events together).
MaxEvents == 3

\* Records one fetch_security_events call returns at most.
MaxFetch == 2

\* Manual triggers that find their event, in one run.
MaxManual == 1

EventIds == 1..MaxEvents

\* deque.append on a deque with maxlen: a full deque drops its leftmost item.
deque_append_keep_oldest(d, e) == IF Len(d) >= Capacity THEN d ELSE Append(d, e)

deque_append(d, e) == IF Len(d) >= Capacity THEN Append(Tail(d), e) ELSE Append(d, e)

S_internal == <<"i","n","t","e","r","n","a","l">>
S_HIGH_RISK_RESOURCE ==
    <<"H","I","G","H","_","R","I","S","K","_","R","E","S","O","U","R","C","E">>

\* The event types _create_security_event is called with: here the one of the
\* discovery loop (line 145); the model-health loop passes MODEL_DRIFT and
\* MODEL_ATTACK the same way (lines 202, 211).
PlatformEventTypes == {S_HIGH_RISK_RESOURCE}

\* str(uuid.uuid4()) for an event: a value no earlier call returned.
event_uuid(n) == n + 1

\* _create_security_event: a HIGH platform event stamped datetime.now(),
\* appended as constructed (is_anomaly keeps the dataclass default).
_create_security_event ==
    \E t \in PlatformEventTypes :
        /\ next_event_id < MaxEvents
        /\ next_event_id' = next_event_id + 1
        /\ security_events' =
              deque_append(security_events,
                           [id |-> event_uuid(next_event_id),
                            timestamp |-> clock,
                            event_type |-> t,
                            severity |-> "HIGH",
                            source_ip |-> S_internal,
                            is_anomaly |-> FALSE])
        /\ UNCHANGED <<risk_vars, more_vars, anomaly_vars, response_queue, active_responses,
                       ingest_vars, drain_vars, bg_tasks, next_response_id,
                       submitted, dequeued, manual_triggers, exec_log, failures>>

(***************************************************************************)
(* Response orchestrator: AutomatedResponseOrchestrator                    *)
(***************************************************************************)
NoEvent == [kind |-> "none"]

CriticalActions == <<"isolate_resource", "notify_security_team", "create_incident_ticket">>
AnomalyActions == <<"increase_monitoring", "notify_admin">>

\* The action list _execute_response builds (lines 580-592).
response_actions_anomaly_first(event) ==
    IF event.is_anomaly THEN AnomalyActions
    ELSE IF event.severity = "CRITICAL" THEN CriticalActions
    ELSE <<>>

response_actions(event) ==
    IF event.severity = "CRITICAL" THEN CriticalActions
    ELSE IF event.is_anomaly THEN AnomalyActions
    ELSE <<>>

\* response_id = str(uuid.uuid4()): a value no earlier call returned.
response_uuid_of_event(n, event) == event.id

response_uuid(n, event) == n + 1

\* self.active_responses[response_id] = {...}: a dict assignment, which
\* replaces the entry of a key already there.
record_response(responses, rid, event, actions) ==
    [r \in DOMAIN responses \cup {rid} |->
        IF r = rid
        THEN [event_id |-> event.id, actions |-> actions, status |-> "completed"]
        ELSE responses[r]]

log_execution(log, rid, event, done) ==
    [r \in DOMAIN log \cup {rid} |->
        IF r = rid THEN [event |-> event, executed |-> done] ELSE log[r]]

\* A put that leaves the new item alone in the queue.
queue_put_replacing(q, event) == <<event>>

\* asyncio.Queue.put on an unbounded queue.
queue_put_if_empty(q, event) == IF q = <<>> THEN Append(q, event) ELSE q

queue_put(q, event) == Append(q, event)

\* handle_incident(event), as part of the step of its caller: the queue is
\* unbounded, so put never suspends.
handle_incident(event) ==
    /\ response_queue' = queue_put(response_queue, event)
    /\ submitted' = [submitted EXCEPT ![event.id] = @ + 1]

\* process_queue, one turn of its loop on a non-empty queue: get the event and
\* enter _execute_response up to the first suspension, the sleep of the first
\* action.  With no action to run the response is recorded in the same step.
\* asyncio.Queue.get on a queue that is not empty: the oldest item leaves it.
queue_get_newest(q) == [event |-> q[Len(q)], rest |-> SubSeq(q, 1, Len(q) - 1)]

queue_get(q) == [event |-> Head(q), rest |-> Tail(q)]

DrainStart ==
    /\ drain_pc = "idle"
    /\ response_queue # <<>>
    /\ LET event == queue_get(response_queue).event
           rid == response_uuid(next_response_id, event)
           actions == response_actions(event)
       IN  /\ response_queue' = queue_get(response_queue).rest
           /\ dequeued' = [dequeued EXCEPT ![event.id] = @ + 1]
           /\ next_response_id' = next_response_id + 1
           /\ IF actions = <<>>
              THEN /\ active_responses' = record_response(active_responses, rid, event, actions)
                   /\ exec_log' = log_execution(exec_log, rid, event, <<>>)
                   /\ UNCHANGED drain_vars
              ELSE /\ drain_event' = [event |-> event, response_id |-> rid, actions |-> actions]
                   /\ drain_done' = <<>>
                   /\ drain_pc' = "exec"
                   /\ UNCHANGED <<active_responses, exec_log>>
    /\ UNCHANGED <<risk_vars, more_vars, anomaly_vars, security_events, ingest_vars, bg_tasks,
                   next_event_id, submitted, manual_triggers, failures>>

\* "for action in actions" has run out of items once every action is done.
for_exhausted_after_first(done, actions) == Len(done) >= 1

for_exhausted(done, actions) == Len(done) = Len(actions)

\* _execute_action returns: the next action of the list is done.  After the last
\* one the response is recorded (lines 598-603) and process_queue is back at its
\* loop test.
DrainAction ==
    /\ drain_pc = "exec"
    /\ LET action == drain_event.actions[Len(drain_done) + 1]
           done == Append(drain_done, action)
       IN  IF for_exhausted(done, drain_event.actions)
           THEN /\ active_responses' = record_response(active_responses, drain_event.response_id,
                                                       drain_event.event, drain_event.actions)
                /\ exec_log' = log_execution(exec_log, drain_event.response_id,
                                             drain_event.event, done)
                /\ drain_event' = NoEvent
                /\ drain_done' = <<>>
                /\ drain_pc' = "idle"
           ELSE /\ drain_done' = done
                /\ UNCHANGED <<active_responses, exec_log, drain_event, drain_pc>>
    /\ UNCHANGED <<risk_vars, more_vars, anomaly_vars, security_events, response_queue, ingest_vars,
                   bg_tasks, next_event_id, next_response_id, submitted, dequeued,
                   manual_triggers, failures>>

\* Failures of _execute_action the model follows in one run.
MaxFailures == 1

\* _execute_action raises.  Nothing between it and _automated_response_handler
\* catches: _execute_response has no try, process_queue catches TimeoutError
\* only.  The handler logs and sleeps 30 s (lines 252-254); the event, already
\* taken from the queue, is dropped with its remaining actions.
DrainActionFails ==
    /\ drain_pc = "exec"
    /\ failures < MaxFailures
    /\ failures' = failures + 1
    /\ drain_event' = NoEvent
    /\ drain_done' = <<>>
    /\ drain_pc' = "error"
    /\ UNCHANGED <<risk_vars, more_vars, anomaly_vars, security_events, response_queue,
                   active_responses, ingest_vars, bg_tasks, next_event_id,
                   next_response_id, submitted, dequeued, manual_triggers, exec_log>>

\* process_queue finds the queue empty and returns; the handler sleeps 10 s.
DrainEmpty ==
    /\ drain_pc = "idle"
    /\ response_queue = <<>>
    /\ drain_pc' = "sleep"
    /\ UNCHANGED <<risk_vars, more_vars, anomaly_vars, security_events, response_queue,
                   active_responses, ingest_vars, drain_event, drain_done, bg_tasks,
                   next_event_id, next_response_id, submitted, dequeued,
                   manual_triggers, exec_log, failures>>

\* The handler's sleep (10 s, or 30 s after an error) ends: process_queue again.
DrainWake ==
    /\ drain_pc \in {"sleep", "error"}
    /\ drain_pc' = "idle"
    /\ UNCHANGED <<risk_vars, more_vars, anomaly_vars, security_events, response_queue,
                   active_responses, ingest_vars, drain_event, drain_done, bg_tasks,
                   next_event_id, next_response_id, submitted, dequeued,
                   manual_triggers, exec_log, failures>>

(***************************************************************************)
(* Event ingestion: SecureCloudAIGuardian._process_security_events         *)
(***************************************************************************)
\* self.cloud_connectors, in the order the dict is built and iterated.
ProviderOrder == <<"aws", "azure", "gcp">>

\* The raw records a connector hands over: repeated records of one key reach
\* every branch of is_anomaly.
RawRecords ==
    [type : {S_LOGIN_ATTEMPT},
     severity : {"MEDIUM", "CRITICAL"},
     source_ip : {S_ip}]

SeqsUpTo(S, n) == UNION {[1..k -> S] : k \in 0..n}

\* What fetch_security_events may return: AWSConnector a list of random
\* records, AzureConnector and GCPConnector the empty list.
fetch_security_events(provider) ==
    IF provider = "aws" THEN SeqsUpTo(RawRecords, MaxFetch) ELSE {<<>>}

\* A test that looks at the severity only.
needs_response_by_severity(event) == event.severity = "CRITICAL"

\* Line 183: the test that sends an ingested event to the orchestrator.
needs_response(event) == event.severity = "CRITICAL" \/ event.is_anomaly

\* The for loop over the connectors moves on; after the last one the loop
\* sleeps 30 s.
IngestAdvance ==
    IF ingest_provider = Len(ProviderOrder)
    THEN ingest_pc' = "sleep" /\ ingest_provider' = 1
    ELSE ingest_pc' = "fetch" /\ ingest_provider' = ingest_provider + 1

\* connector.fetch_security_events() returns.
IngestFetch ==
    /\ ingest_pc = "fetch"
    /\ \E recs \in fetch_security_events(ProviderOrder[ingest_provider]) :
          /\ next_event_id + Len(recs) <= MaxEvents
          /\ ingest_events' = recs
          /\ IF recs = <<>>
             THEN IngestAdvance
             ELSE ingest_pc' = "events" /\ UNCHANGED ingest_provider
    /\ UNCHANGED <<risk_vars, more_vars, anomaly_vars, security_events, response_queue,
                   active_responses, drain_vars, bg_tasks, next_event_id,
                   next_response_id, submitted, dequeued, manual_triggers, exec_log,
                   failures>>

\* "for event_data in events": the item a turn of the loop works on, and the
\* items left for the turns after it.
for_step_from_end(events) ==
    [item |-> events[Len(events)], rest |-> SubSeq(events, 1, Len(events) - 1)]

for_step(events) == [item |-> Head(events), rest |-> Tail(events)]

\* One turn of the inner for loop (lines 164-184): the event is built, analysed
\* (is_anomaly sets the flag and updates the baseline), appended to the history
\* and, if it qualifies, handed to the orchestrator.  The awaits of the analysis
\* come before anything shared is written, so the writes are one step.
IngestEvent ==
    /\ ingest_pc = "events"
    /\ next_event_id < MaxEvents
    /\ \E coin \in BOOLEAN :
          LET rec == for_step(ingest_events).item
              built == [id |-> event_uuid(next_event_id),
                        timestamp |-> clock,
                        event_type |-> rec.type,
                        severity |-> rec.severity,
                        source_ip |-> rec.source_ip,
                        is_anomaly |-> FALSE]
              event == [built EXCEPT !.is_anomaly = is_anomaly(baseline_patterns, built, coin)]
          IN  /\ baseline_patterns' = is_anomaly_patterns(baseline_patterns, built)
              /\ analysed' = [analysed EXCEPT ![event.id] = @ + 1]
              /\ security_events' = deque_append(security_events, event)
              /\ next_event_id' = next_event_id + 1
              /\ IF needs_response(event)
                 THEN handle_incident(event)
                 ELSE UNCHANGED <<response_queue, submitted>>
    /\ ingest_events' = for_step(ingest_events).rest
    /\ IF for_step(ingest_events).rest = <<>>
       THEN IngestAdvance
       ELSE UNCHANGED <<ingest_pc, ingest_provider>>
    /\ UNCHANGED <<risk_vars, beside_analysis, seen_pairs, last_call, active_responses,
                   drain_vars, bg_tasks, next_response_id, dequeued, manual_triggers,
                   exec_log, failures>>

\* The 30 s sleep ends: the next cycle starts with the first connector.
IngestWake ==
    /\ ingest_pc = "sleep"
    /\ ingest_pc' = "fetch"
    /\ UNCHANGED <<risk_vars, more_vars, anomaly_vars, security_events, response_queue,
                   active_responses, ingest_provider, ingest_events, drain_vars,
                   bg_tasks, next_event_id, next_response_id, submitted, dequeued,
                   manual_triggers, exec_log, failures>>

(***************************************************************************)
(* Manual trigger: POST /api/events/{event_id}/respond                     *)
(***************************************************************************)
\* A handler that did not look the id up would start a response for an event
\* the history never held.
trigger_incident_response_unchecked ==
    \E event_id \in EventIds :
        /\ manual_triggers < MaxManual
        /\ manual_triggers' = manual_triggers + 1
        /\ bg_tasks' = Append(bg_tasks, [id |-> event_id,
                                         event_type |-> S_LOGIN_ATTEMPT,
                                         severity |-> "MEDIUM",
                                         source_ip |-> S_ip,
                                         is_anomaly |-> FALSE])
        /\ UNCHANGED <<risk_vars, more_vars, anomaly_vars, security_events, response_queue,
                       active_responses, ingest_vars, drain_vars, next_event_id,
                       next_response_id, submitted, dequeued, exec_log, failures>>

\* A search that stops at whatever the history holds.
find_event_any(history, event_id) == DOMAIN history

\* "for e in guardian.security_events: if e.id == event_id": the positions of
\* the history that hold the id.
find_event(history, event_id) == {i \in DOMAIN history : history[i].id = event_id}

\* The handler, handed the guardian by Depends(get_guardian), looks the id up
\* in the history; an id it does not find is answered 404 and changes nothing
\* else, a found event becomes a background task and the answer is 200.
trigger_incident_response ==
    \E event_id \in EventIds :
        LET found == find_event(security_events, event_id) IN
        /\ guardian_instance # "None"
        /\ IF found = {}
           THEN /\ api_reply' = [status |-> 404, event_id |-> event_id]
                /\ UNCHANGED <<app, guardian_instance, monitoring_task, requests>>
                /\ UNCHANGED <<risk_vars, anomaly_vars, guardian_vars, beside_api>>
           ELSE /\ manual_triggers < MaxManual
                /\ manual_triggers' = manual_triggers + 1
                /\ bg_tasks' =
                      Append(bg_tasks, security_events[CHOOSE i \in found : \A j \in found : i <= j])
                /\ api_reply' = [status |-> 200, event_id |-> event_id]
                /\ UNCHANGED <<app, guardian_instance, monitoring_task, requests>>
                /\ UNCHANGED <<risk_vars, beside_api, anomaly_vars, security_events,
                               response_queue, active_responses, ingest_vars, drain_vars,
                               next_event_id, next_response_id, submitted, dequeued,
                               exec_log, failures>>

\* A background task runs once its response has been sent: handle_incident(event).
RunBackgroundTask ==
    \E i \in DOMAIN bg_tasks :
        /\ handle_incident(bg_tasks[i])
        /\ bg_tasks' = SubSeq(bg_tasks, 1, i - 1) \o SubSeq(bg_tasks, i + 1, Len(bg_tasks))
        /\ UNCHANGED <<risk_vars, more_vars, anomaly_vars, security_events, active_responses,
                       ingest_vars, drain_vars, next_event_id, next_response_id,
                       dequeued, manual_triggers, exec_log, failures>>

(***************************************************************************)
(* Shutdown: monitoring_task.cancel() in main() and in lifespan()          *)
(***************************************************************************)
\* cancel() on the gather of start_monitoring cancels its five children: each
\* gets CancelledError at the await it is suspended in.  CancelledError is not
\* an Exception, so no loop's except clause catches it: every loop ends where
\* it is, and "await monitoring_task" then returns.  What _execute_response
\* held (drain_event, drain_done) and what the ingestion had fetched
\* (ingest_events) is kept here as it was when the loops ended.
Shutdown ==
    /\ drain_pc # "cancelled"
    /\ drain_pc' = "cancelled"
    /\ ingest_pc' = "cancelled"
    /\ UNCHANGED <<risk_vars, more_vars, anomaly_vars, security_events, response_queue,
                   active_responses, ingest_provider, ingest_events, drain_event,
                   drain_done, bg_tasks, next_event_id, next_response_id, submitted,
                   dequeued, manual_triggers, exec_log, failures>>

(***************************************************************************)
(* The five monitoring loops of start_monitoring (lines 116-254)           *)
(***************************************************************************)
\* _monitor_cloud_resources, _process_security_events, _monitor_ai_model_health,
\* _generate_threat_intelligence, _automated_response_handler.
Loops == {"resources", "events", "models", "threats", "responses"}

\* The sleep that ends a cycle (lines 151, 186, 217, 238, 250), in seconds.
nominal_sleep(l) ==
    CASE l = "resources" -> 300
      [] l = "events" -> 30
      [] l = "models" -> 600
      [] l = "threats" -> 1800
      [] l = "responses" -> 10

\* The sleep in the except clause (lines 155, 190, 221, 242, 254), in seconds.
error_sleep(l) ==
    CASE l = "resources" -> 60
      [] l = "events" -> 60
      [] l = "models" -> 300
      [] l = "threats" -> 600
      [] l = "responses" -> 30

\* Where an Exception raised in the cycle of loop l takes it: every loop body
\* is "while True: try: ... except Exception as e: log; sleep".
loop_except_events_unguarded(l) == IF l = "events" THEN "dead" ELSE "error"

loop_except(l) == "error"

\* Whether the event loop can run loop l when it is ready: every call of the
\* five loops is awaited, so a loop that waits holds nothing the others need.
may_run_when_others_idle(pc, l) == \A m \in Loops \ {l} : pc[m] # "cycle"

may_run(pc, l) == TRUE

LoopsInit ==
    /\ loop_pc = [l \in Loops |-> "cycle"]
    /\ loop_sleep = [l \in Loops |-> 0]
    /\ coordinator = "running"

\* The cycle of loop l ends and the loop sleeps for its period.
LoopCycleDone(l) ==
    /\ loop_pc[l] = "cycle"
    /\ may_run(loop_pc, l)
    /\ loop_pc' = [loop_pc EXCEPT ![l] = "sleep"]
    /\ loop_sleep' = [loop_sleep EXCEPT ![l] = nominal_sleep(l)]
    /\ UNCHANGED <<coordinator, risk_vars, anomaly_vars, guardian_vars, beside_loops>>

\* Something in the cycle of loop l raises an Exception.  A loop that did not
\* catch it would end, and gather would raise it in start_monitoring.
LoopCycleRaises(l) ==
    /\ loop_pc[l] = "cycle"
    /\ may_run(loop_pc, l)
    /\ loop_pc' = [loop_pc EXCEPT ![l] = loop_except(l)]
    /\ loop_sleep' = [loop_sleep EXCEPT ![l] = IF loop_except(l) = "error" THEN error_sleep(l) ELSE 0]
    /\ coordinator' = IF loop_except(l) = "error" THEN coordinator ELSE "failed"
    /\ UNCHANGED <<risk_vars, anomaly_vars, guardian_vars, beside_loops>>

\* The sleep of loop l ends: "while True" starts the next cycle.
LoopWake(l) ==
    /\ loop_pc[l] \in {"sleep", "error"}
    /\ may_run(loop_pc, l)
    /\ loop_pc' = [loop_pc EXCEPT ![l] = "cycle"]
    /\ loop_sleep' = [loop_sleep EXCEPT ![l] = 0]
    /\ UNCHANGED <<coordinator, risk_vars, anomaly_vars, guardian_vars, beside_loops>>

(***************************************************************************)
(* Resource discovery: SecureCloudAIGuardian._monitor_cloud_resources      *)
(***************************************************************************)
\* Resources one discover_resources call returns at most.
MaxDiscovered == 2

\* Discovery cycles the model follows.
MaxCycles == 2

\* The SecurityEvent that _create_security_event constructs (lines 310-320).
platform_event(n, event_type) ==
    [id |-> event_uuid(n),
     timestamp |-> Now,
     event_type |-> event_type,
     severity |-> "HIGH",
     source_ip |-> S_internal,
     is_anomaly |-> FALSE]

\* What discover_resources hands over: an unused resource behind a security
\* group (factors 0.2), and one without security groups, tagged public and
\* unused (factors 0.3 + 0.5 + 0.2).
DiscResources ==
    {[kind |-> "resource", security_group_ids |-> <<"sg-1">>,
      tags |-> [k \in {"Environment"} |-> S_production],
      last_accessed |-> Now - 1080, risk_score |-> 0],
     [kind |-> "resource", security_group_ids |-> <<>>,
      tags |-> [k \in {"Access"} |-> S_PUBLIC],
      last_accessed |-> Now - 1080, risk_score |-> 0]}

\* A threshold that 0.7 itself reaches.
is_high_risk_from_070(risk_score) == risk_score >= 70

\* if risk_score > 0.7 (line 143), in hundredths
is_high_risk(risk_score) == risk_score > 70

\* What assess_risk returns in this loop: the ends of uniform(0.0, 0.5).
DiscAiValues == {0, 50}

discover_resources == UNION {[1..n -> DiscResources] : n \in 1..MaxDiscovered}

\* An assignment that drops what the cache held for the other providers.
cache_put_clearing(cache, provider, resources) == [p \in {provider} |-> resources]

\* self.resources_cache[provider] = resources
cache_put(cache, provider, resources) ==
    [p \in DOMAIN cache \cup {provider} |->
        IF p = provider THEN resources ELSE cache[p]]

\* resource.risk_score = risk_score, on the object the cached list holds
cache_score(cache, provider, i, score) ==
    [cache EXCEPT ![provider] = [@ EXCEPT ![i] = [@ EXCEPT !.risk_score = score]]]

\* The position of the discovery loop before its first cycle.
DiscLoopInit ==
    /\ disc_pc = "start"
    /\ disc_provider = 0
    /\ disc_index = 0
    /\ disc_ai = <<>>
    /\ disc_scored = {}
    /\ disc_failed = {}
    /\ disc_cycles = 0

DiscInit == resources_cache = <<>> /\ DiscLoopInit

\* A cycle starts (at start_monitoring, or when a sleep ends): the first
\* provider's resources are discovered and cached (lines 134-136) and the loop
\* suspends in assess_risk for the first of them (line 140, line 461).
DiscCycleStart ==
    /\ disc_pc \in {"start", "sleep", "error"}
    /\ disc_cycles < MaxCycles
    /\ disc_cycles' = disc_cycles + 1
    /\ \E resources \in discover_resources :
          /\ resources_cache' = cache_put(resources_cache, ProviderOrder[1], resources)
          /\ disc_ai' = cache_put(disc_ai, ProviderOrder[1], [i \in DOMAIN resources |-> -1])
    /\ disc_pc' = "assess"
    /\ disc_provider' = 1
    /\ disc_index' = 1
    /\ disc_scored' = {}
    /\ disc_failed' = {}
    /\ UNCHANGED <<risk_vars, anomaly_vars, guardian_vars, beside_disc>>

\* assess_risk returns: the score is stored on the resource, a score above 0.7
\* makes a HIGH_RISK_RESOURCE event (lines 141-149), and the loop goes on to
\* the next suspension: assess_risk for the next resource, for the first
\* resource of the next provider (discovered and cached on the way), or the
\* sleep of 300 s.
DiscAssessReturns ==
    /\ disc_pc = "assess"
    /\ \E ai \in DiscAiValues :
        LET provider == ProviderOrder[disc_provider]
            r == resources_cache[provider][disc_index]
            risk_score == _calculate_risk_score(r, Now, ai)
            scored == cache_score(resources_cache, provider, disc_index, risk_score)
        IN  /\ disc_scored' = disc_scored \cup {<<provider, disc_index>>}
            /\ IF is_high_risk(risk_score)
               THEN /\ security_events' =
                          deque_append(security_events,
                                       platform_event(next_event_id, S_HIGH_RISK_RESOURCE))
                    /\ next_event_id' = next_event_id + 1
               ELSE UNCHANGED <<security_events, next_event_id>>
            /\ IF disc_index < Len(resources_cache[provider])
               THEN /\ resources_cache' = scored
                    /\ disc_ai' = [disc_ai EXCEPT ![provider][disc_index] = ai]
                    /\ disc_index' = disc_index + 1
                    /\ UNCHANGED <<disc_pc, disc_provider>>
               ELSE IF disc_provider < Len(ProviderOrder)
               THEN /\ \E resources \in discover_resources :
                          /\ resources_cache' =
                                cache_put(scored, ProviderOrder[disc_provider + 1], resources)
                          /\ disc_ai' =
                                cache_put([disc_ai EXCEPT ![provider][disc_index] = ai],
                                          ProviderOrder[disc_provider + 1],
                                          [i \in DOMAIN resources |-> -1])
                    /\ disc_provider' = disc_provider + 1
                    /\ disc_index' = 1
                    /\ UNCHANGED disc_pc
               ELSE /\ resources_cache' = scored
                    /\ disc_ai' = [disc_ai EXCEPT ![provider][disc_index] = ai]
                    /\ disc_pc' = "sleep"
                    /\ UNCHANGED <<disc_provider, disc_index>>
    /\ UNCHANGED <<disc_failed, disc_cycles, risk_vars, anomaly_vars, response_queue,
                   active_responses, ingest_vars, drain_vars, bg_tasks, next_response_id,
                   submitted, dequeued, manual_triggers, exec_log, failures, beside_disc>>

\* assess_risk raises.  _calculate_risk_score has no try, and the only handler
\* is the except of the loop (lines 153-155): the rest of the cycle is skipped
\* and the loop sleeps 60 s.
DiscAssessRaises ==
    /\ disc_pc = "assess"
    /\ disc_failed = {}
    /\ disc_failed' = {<<ProviderOrder[disc_provider], disc_index>>}
    /\ disc_pc' = "error"
    /\ UNCHANGED <<resources_cache, disc_provider, disc_index, disc_ai, disc_scored,
                   disc_cycles, risk_vars, anomaly_vars, guardian_vars, beside_disc>>

(***************************************************************************)
(* Model health audit: SecureCloudAIGuardian._monitor_ai_model_health      *)
(***************************************************************************)
\* self.ai_models, in the order the dict is built and iterated (lines 108-113).
ModelOrder == <<"network_anomaly", "user_behavior", "malware_detection", "config_drift">>

S_MODEL_DRIFT == <<"M","O","D","E","L","_","D","R","I","F","T">>
S_MODEL_ATTACK == <<"M","O","D","E","L","_","A","T","T","A","C","K">>

\* AIModelMetrics.drift_score in hundredths, at and above the threshold of 0.3.
DriftScores == {30, 31}

\* AIModelMetrics.adversarial_attempts: the largest value of randint(0, 5), and
\* the values at and above the threshold of 10 that a monitor counting real
\* attempts reports.
AdversarialAttempts == {4, 10, 11}

\* An escalation that reported one finding per model would drop the attack of
\* a model that also drifts.
health_events_exclusive(drift_score, adversarial_attempts) ==
    IF drift_score > 30 THEN <<S_MODEL_DRIFT>>
    ELSE IF adversarial_attempts > 10 THEN <<S_MODEL_ATTACK>>
    ELSE <<>>

\* The events one check makes (lines 199-215): drift first, attack second.
health_events(drift_score, adversarial_attempts) ==
    (IF drift_score > 30 THEN <<S_MODEL_DRIFT>> ELSE <<>>)
    \o (IF adversarial_attempts > 10 THEN <<S_MODEL_ATTACK>> ELSE <<>>)

\* _create_security_event called for each type of the list in turn.
RECURSIVE append_platform_events(_, _, _)
append_platform_events(history, n, types) ==
    IF types = <<>>
    THEN history
    ELSE append_platform_events(deque_append(history, platform_event(n, Head(types))),
                                n + 1, Tail(types))

\* The models whose check returned in the current cycle.
health_checked == DOMAIN health_metrics

HealthInit ==
    /\ health_pc = "start"
    /\ health_index = 0
    /\ health_metrics = <<>>
    /\ health_failed = {}
    /\ health_cycles = 0

\* A cycle starts: the loop suspends in check_model_health for the first model.
HealthCycleStart ==
    /\ health_pc \in {"start", "sleep", "error"}
    /\ health_cycles < MaxCycles
    /\ health_cycles' = health_cycles + 1
    /\ health_pc' = "check"
    /\ health_index' = 1
    /\ health_metrics' = <<>>
    /\ health_failed' = {}
    /\ UNCHANGED <<risk_vars, anomaly_vars, guardian_vars, beside_health>>

\* check_model_health returns the metrics of the model: its events are made,
\* and the loop suspends in the check of the next model or in the sleep of 600 s.
HealthCheckReturns ==
    /\ health_pc = "check"
    /\ \E drift_score \in DriftScores, adversarial_attempts \in AdversarialAttempts :
        LET types == health_events(drift_score, adversarial_attempts)
        IN  /\ security_events' = append_platform_events(security_events, next_event_id, types)
            /\ next_event_id' = next_event_id + Len(types)
            /\ health_metrics' =
                  [m \in health_checked \cup {ModelOrder[health_index]} |->
                      IF m = ModelOrder[health_index]
                      THEN [drift_score |-> drift_score,
                            adversarial_attempts |-> adversarial_attempts]
                      ELSE health_metrics[m]]
    /\ IF health_index < Len(ModelOrder)
       THEN health_index' = health_index + 1 /\ UNCHANGED health_pc
       ELSE health_pc' = "sleep" /\ UNCHANGED health_index
    /\ UNCHANGED <<health_failed, health_cycles, risk_vars, anomaly_vars, response_queue,
                   active_responses, ingest_vars, drain_vars, bg_tasks, next_response_id,
                   submitted, dequeued, manual_triggers, exec_log, failures, beside_health>>

\* check_model_health raises.  The for loop has no try of its own: the except
\* of the while loop (lines 219-221) ends the cycle and sleeps 300 s.
HealthCheckRaises ==
    /\ health_pc = "check"
    /\ health_failed' = {ModelOrder[health_index]}
    /\ health_pc' = "error"
    /\ UNCHANGED <<health_index, health_metrics, health_cycles, risk_vars, anomaly_vars,
                   guardian_vars, beside_health>>

(***************************************************************************)
(* Threat intelligence: ThreatIntelligence.analyze_patterns and            *)
(* SecureCloudAIGuardian._generate_threat_intelligence                     *)
(***************************************************************************)
\* Events of the first type in the trailing 24 hours, at most.
MaxGroup == 10

\* Events of the second type in the trailing 24 hours, at most.
MaxOther == 4

\* Events of the history older than the window, at most.
MaxOld == 1

\* Refreshes the model follows.
MaxRefresh == 2

\* The length of the window, in hours: timedelta(hours=24).
WindowHours == 24

\* A SecurityEvent of the history with its timestamp, in hours.
history_event(n, event_type, timestamp) ==
    [id |-> event_uuid(n),
     timestamp |-> timestamp,
     event_type |-> event_type,
     severity |-> "MEDIUM",
     source_ip |-> S_ip,
     is_anomaly |-> FALSE]

\* The histories the refresh is run on, in append order: old LOGIN_ATTEMPT
\* events, the last of them exactly 24 hours old, then a events of one type and
\* b of the other inside the window, either type first.  They are well inside
\* maxlen=10000, which Capacity scales down for the append only.
threat_history(old, a, b, login_first) ==
    LET first == IF login_first THEN S_LOGIN_ATTEMPT ELSE S_CONFIG_CHANGE
        second == IF login_first THEN S_CONFIG_CHANGE ELSE S_LOGIN_ATTEMPT
        nfirst == IF login_first THEN a ELSE b
    IN  [i \in 1..(old + a + b) |->
            IF i <= old THEN history_event(i - 1, S_LOGIN_ATTEMPT, Now - WindowHours - (old - i))
            ELSE IF i <= old + nfirst THEN history_event(i - 1, first, Now - 1)
            ELSE history_event(i - 1, second, Now - 1)]

ThreatHistories ==
    {threat_history(old, a, b, login_first) :
        old \in 0..MaxOld, a \in 0..MaxGroup, b \in 0..MaxOther, login_first \in BOOLEAN}

\* The events of the list younger than 24 hours or exactly 24 hours old.
recent_events_inclusive(history, now) ==
    SelectSeq(history, LAMBDA e : e.timestamp >= now - WindowHours)

\* recent_events (lines 228-229): the events strictly younger than 24 hours.
recent_events(history, now) ==
    SelectSeq(history, LAMBDA e : e.timestamp > now - WindowHours)

\* event_groups[event.event_type].append(event) on a defaultdict(list), which
\* keeps its keys in the order of their first event.
add_to_group(groups, e) ==
    IF \E i \in DOMAIN groups : groups[i].event_type = e.event_type
    THEN [i \in DOMAIN groups |->
             IF groups[i].event_type = e.event_type
             THEN [groups[i] EXCEPT !.events = Append(@, e)]
             ELSE groups[i]]
    ELSE Append(groups, [event_type |-> e.event_type, events |-> <<e>>])

RECURSIVE event_groups(_)
event_groups(events) ==
    IF events = <<>>
    THEN <<>>
    ELSE add_to_group(event_groups(SubSeq(events, 1, Len(events) - 1)), events[Len(events)])

\* len(group_events) > 3, the pattern threshold
is_pattern_from_three(group_events) == Len(group_events) >= 3

is_pattern(group_events) == Len(group_events) > 3

\* min(len(group_events) * 0.1, 0.95), in hundredths
pattern_confidence(n) == Min(10 * n, 95)

\* An id every pattern shares.
pattern_uuid_shared(n) == 1

\* str(uuid.uuid4()): a value never drawn before
pattern_uuid(n) == n + 1

\* The loop over event_groups.items() (lines 542-550); n pattern ids were drawn
\* before.  The description, a function of the type, is left out.
RECURSIVE emit_patterns(_, _)
emit_patterns(groups, n) ==
    IF groups = <<>>
    THEN <<>>
    ELSE IF is_pattern(Head(groups).events)
    THEN <<[pattern_id |-> pattern_uuid(n),
            pattern_type |-> Head(groups).event_type,
            confidence |-> pattern_confidence(Len(Head(groups).events)),
            event_count |-> Len(Head(groups).events)]>>
         \o emit_patterns(Tail(groups), n + 1)
    ELSE emit_patterns(Tail(groups), n)

\* An analysis whose counts grew with the number of ids drawn before would
\* answer differently from call to call.
analyze_patterns_accumulating(events, n) ==
    LET patterns == emit_patterns(event_groups(events), n)
    IN  [i \in DOMAIN patterns |-> [patterns[i] EXCEPT !.event_count = @ + n]]

analyze_patterns(events, n) == emit_patterns(event_groups(events), n)

\* if pattern['confidence'] > 0.8
promotes_from_080(pattern) == pattern.confidence >= 80

promotes(pattern) == pattern.confidence > 80

\* The loop of lines 233-236: self.active_threats[pattern['pattern_id']] = pattern
RECURSIVE update_active_threats(_, _)
update_active_threats(threats, patterns) ==
    IF patterns = <<>>
    THEN threats
    ELSE LET pattern == Head(patterns)
             updated ==
                 IF promotes(pattern)
                 THEN [k \in DOMAIN threats \cup {pattern.pattern_id} |->
                          IF k = pattern.pattern_id THEN pattern ELSE threats[k]]
                 ELSE threats
         IN  update_active_threats(updated, Tail(patterns))

ThreatInit ==
    /\ active_threats = <<>>
    /\ threat_pc = "start"
    /\ threat_recent = <<>>
    /\ threat_patterns = <<>>
    /\ prev_patterns = <<>>
    /\ first_threats = <<>>
    /\ next_pattern_id = 0
    /\ refreshes = 0

\* A refresh starts: recent_events is built and the loop suspends in
\* analyze_patterns (await asyncio.sleep(0.2)).
ThreatRefreshStart ==
    /\ threat_pc \in {"start", "sleep"}
    /\ refreshes < MaxRefresh
    /\ threat_recent' = recent_events(security_events, Now)
    /\ threat_pc' = "analyze"
    /\ UNCHANGED <<active_threats, threat_patterns, prev_patterns, first_threats,
                   next_pattern_id, refreshes, risk_vars, anomaly_vars, guardian_vars,
                   beside_threat>>

\* analyze_patterns returns, the patterns above the threshold are promoted and
\* the loop sleeps 1800 s.
ThreatRefreshDone ==
    /\ threat_pc = "analyze"
    /\ LET patterns == analyze_patterns(threat_recent, next_pattern_id)
           threats == update_active_threats(active_threats, patterns)
       IN  /\ threat_patterns' = patterns
           /\ prev_patterns' = threat_patterns
           /\ next_pattern_id' = next_pattern_id + Len(patterns)
           /\ active_threats' = threats
           /\ first_threats' = IF refreshes = 0 THEN threats ELSE first_threats
    /\ refreshes' = refreshes + 1
    /\ threat_pc' = "sleep"
    /\ UNCHANGED <<threat_recent, risk_vars, anomaly_vars, guardian_vars, beside_threat>>

(***************************************************************************)
(* Dashboard: SecureCloudAIGuardian.get_dashboard_data                     *)
(***************************************************************************)
\* Events of each age in a history the dashboard is asked about, at most.
MaxAged == 1

\* get_dashboard_data calls the model follows.
MaxQueries == 2

NoSnapshot == [kind |-> "none"]

\* A history in append order: o events 25 hours old, e events exactly 24 hours
\* old, i events 23 hours old and r events of this hour, their types
\* alternating between LOGIN_ATTEMPT and CONFIG_CHANGE.
dash_history(o, e, i, r) ==
    [k \in 1..(o + e + i + r) |->
        history_event(k - 1,
                      IF k % 2 = 1 THEN S_LOGIN_ATTEMPT ELSE S_CONFIG_CHANGE,
                      IF k <= o THEN Now - WindowHours - 1
                      ELSE IF k <= o + e THEN Now - WindowHours
                      ELSE IF k <= o + e + i THEN Now - WindowHours + 1
                      ELSE Now)]

\* The histories the dashboard is asked about: those above, and one whose 9
\* recent LOGIN_ATTEMPT events make an active threat.
DashHistories ==
    {dash_history(o, e, i, r) : o \in 0..MaxAged, e \in 0..MaxAged,
                                i \in 0..MaxAged, r \in 0..MaxAged}
    \cup {threat_history(1, 9, 4, TRUE)}

\* The caches the dashboard is asked about: nothing discovered yet, or the
\* lists of one or two providers as a discovery cycle scored them.
DashCaches ==
    LET scored == {[i \in DOMAIN resources |->
                       [resources[i] EXCEPT
                           !.risk_score = _calculate_risk_score(resources[i], Now, 50)]] :
                   resources \in discover_resources}
    IN  {<<>>}
        \cup {cache_put(<<>>, ProviderOrder[1], l) : l \in scored}
        \cup {cache_put(cache_put(<<>>, ProviderOrder[1], l), ProviderOrder[2], l) : l \in scored}

\* Trends that note which types occur.
_calculate_threat_trends_by_presence(events) ==
    [t \in {events[i].event_type : i \in DOMAIN events} |-> 1]

\* _calculate_threat_trends: trends[event.event_type] += 1 on a defaultdict(int)
RECURSIVE _calculate_threat_trends(_)
_calculate_threat_trends(events) ==
    IF events = <<>>
    THEN <<>>
    ELSE LET trends == _calculate_threat_trends(SubSeq(events, 1, Len(events) - 1))
             t == events[Len(events)].event_type
         IN  [k \in DOMAIN trends \cup {t} |->
                 IF k = t
                 THEN (IF t \in DOMAIN trends THEN trends[t] ELSE 0) + 1
                 ELSE trends[k]]

\* The (provider, index) of every cached resource.
cached_resources(cache) ==
    UNION {{<<p, i>> : i \in DOMAIN cache[p]} : p \in DOMAIN cache}

\* The dict get_dashboard_data builds (lines 330-344).
get_dashboard_data(history, cache, threats, now) ==
    LET recent == recent_events(history, now)
    IN  [total_resources |-> Cardinality(cached_resources(cache)),
         active_threats |-> Cardinality(DOMAIN threats),
         recent_events |-> Len(recent),
         high_risk_resources |->
             Cardinality({x \in cached_resources(cache) : cache[x[1]][x[2]].risk_score > 70}),
         ai_model_health |-> [k \in DOMAIN ModelOrder |-> <<ModelOrder[k], "healthy">>],
         cloud_coverage |-> SelectSeq(ProviderOrder, LAMBDA p : p \in DOMAIN cache),
         threat_trends |-> _calculate_threat_trends(recent)]

DashInit == dashboard = NoSnapshot /\ queries = 0

\* No event has been analysed yet.
AnalysisInit == analysed = [i \in EventIds |-> 0]

\* A query that dropped from the history what it does not count would change
\* what the next reader sees.
GetDashboardPruning ==
    /\ queries < MaxQueries
    /\ queries' = queries + 1
    /\ dashboard' = get_dashboard_data(security_events, resources_cache, active_threats, Now)
    /\ security_events' = recent_events(security_events, Now)
    /\ UNCHANGED <<risk_vars, anomaly_vars, response_queue, active_responses, ingest_vars,
                   drain_vars, bg_tasks, next_event_id, next_response_id, submitted,
                   dequeued, manual_triggers, exec_log, failures, beside_dash>>

\* A dashboard query: get_dashboard_data has no await and assigns to locals
\* only, so it is one step that changes nothing but what the caller receives.
GetDashboard ==
    /\ queries < MaxQueries
    /\ queries' = queries + 1
    /\ dashboard' = get_dashboard_data(security_events, resources_cache, active_threats, Now)
    /\ UNCHANGED <<risk_vars, anomaly_vars, guardian_vars, beside_dash>>

(***************************************************************************)
(* Presentation layer: securecloud_api2.py and api/index.py                *)
(***************************************************************************)
\* Data queries the model follows.
MaxRequests == 2

Apps == {"securecloud_api2", "api_index"}

NoReply == [status |-> 0]

\* What importing the module of an application leaves: securecloud_api2 sets
\* guardian_instance = None, api/index.py builds its guardian at once.  Neither
\* starts the monitoring loops.
ApiImport(a) ==
    /\ app = a
    /\ guardian_instance = (IF a = "api_index" THEN "guardian" ELSE "None")
    /\ monitoring_task = "None"
    /\ api_reply = NoReply
    /\ requests = 0

\* securecloud_api2 once the startup half of lifespan has run: the state the
\* loops of the other specifications run in.
ApiInit ==
    /\ app = "securecloud_api2"
    /\ guardian_instance = "guardian"
    /\ monitoring_task = "running"
    /\ api_reply = NoReply
    /\ requests = 0

\* get_guardian: HTTPException 503 while the global is None, else the instance.
get_guardian(instance) ==
    IF instance = "None" THEN [status |-> 503] ELSE [status |-> 200]

\* The startup half of lifespan: the guardian is built and start_monitoring is
\* made a task, with no await in between.
lifespan ==
    /\ app = "securecloud_api2"
    /\ guardian_instance = "None"
    /\ guardian_instance' = "guardian"
    /\ monitoring_task' = "running"
    /\ UNCHANGED <<app, api_reply, requests>>
    /\ UNCHANGED <<risk_vars, anomaly_vars, guardian_vars, beside_api>>

\* GET /api/events of securecloud_api2 with no filter: 503 from the dependency,
\* or the events of the history.  The order of the list is not followed.
get_security_events ==
    /\ app = "securecloud_api2"
    /\ requests < MaxRequests
    /\ requests' = requests + 1
    /\ api_reply' =
          IF get_guardian(guardian_instance).status = 503
          THEN [status |-> 503]
          ELSE [status |-> 200,
                body |-> {security_events[i].id : i \in DOMAIN security_events}]
    /\ UNCHANGED <<app, guardian_instance, monitoring_task>>
    /\ UNCHANGED <<risk_vars, anomaly_vars, guardian_vars, beside_api>>

\* GET /dashboard of api/index.py: the dict of get_dashboard_data, as it is.
\* The events of this guardian carry no timestamp here: its loops never run,
\* so its history is empty.
dashboard_index ==
    /\ app = "api_index"
    /\ requests < MaxRequests
    /\ requests' = requests + 1
    /\ api_reply' =
          [status |-> 200,
           body |-> get_dashboard_data(security_events, resources_cache, active_threats, Now)]
    /\ UNCHANGED <<app, guardian_instance, monitoring_task>>
    /\ UNCHANGED <<risk_vars, anomaly_vars, guardian_vars, beside_api>>

(***************************************************************************)
(* Confidence of analysed events: _analyze_event_with_ai                   *)
(***************************************************************************)
\* Events analysed and appended to a collected history, at most.
MaxIngested == 2

\* What predict may return, in hundredths: the ends of [0, 1].
Predictions == {0, 100}

\* A combination that adds the scores up.
combined_confidence_summed(confidence_scores) ==
    confidence_scores[1] + confidence_scores[2]

\* combined_confidence = np.mean(confidence_scores), of the two scores of
\* lines 292-297.
combined_confidence(confidence_scores) ==
    (confidence_scores[1] + confidence_scores[2]) \div Len(confidence_scores)

\* The event with the two fields line 178 assigns.
analysed_event(event, confidence, anomaly) ==
    [f \in DOMAIN event \cup {"ai_confidence"} |->
        IF f = "ai_confidence" THEN confidence
        ELSE IF f = "is_anomaly" THEN anomaly
        ELSE event[f]]

\* Histories collected before: LOGIN_ATTEMPT events of the last hour, one short
\* of a pattern or around the promotion threshold, each analysed with the
\* predictions p and none found anomalous.
ConfidenceHistories ==
    {[i \in DOMAIN h |-> analysed_event(h[i], combined_confidence(p), FALSE)] :
        h \in {threat_history(0, a, 0, TRUE) : a \in {3, MaxGroup - 2, MaxGroup - 1}},
        p \in Predictions \X Predictions}

ConfInit == ingested = 0

\* One turn of the for loop of _process_security_events (lines 164-184) on a
\* LOGIN_ATTEMPT record, the history being far from maxlen: the event is
\* built, the two predictions and is_anomaly return, the event is appended and,
\* if it qualifies, handed to the orchestrator.
ConfidenceIngest ==
    /\ ingested < MaxIngested
    /\ ingested' = ingested + 1
    /\ \E p \in Predictions \X Predictions, coin \in BOOLEAN :
          LET built == history_event(next_event_id, S_LOGIN_ATTEMPT, Now)
              event == analysed_event(built, combined_confidence(p),
                                      is_anomaly(baseline_patterns, built, coin))
          IN  /\ baseline_patterns' = is_anomaly_patterns(baseline_patterns, built)
              /\ security_events' = Append(security_events, event)
              /\ next_event_id' = next_event_id + 1
              /\ IF needs_response(event)
                 THEN /\ response_queue' = queue_put(response_queue, event)
                      /\ submitted' =
                            [k \in DOMAIN submitted \cup {event.id} |->
                                IF k = event.id
                                THEN (IF k \in DOMAIN submitted THEN submitted[k] ELSE 0) + 1
                                ELSE submitted[k]]
                 ELSE UNCHANGED <<response_queue, submitted>>
    /\ UNCHANGED <<risk_vars, seen_pairs, last_call, active_responses, ingest_vars,
                   drain_vars, bg_tasks, next_response_id, dequeued, manual_triggers,
                   exec_log, failures, beside_conf>>

(***************************************************************************)
(* Time: datetime.now()                                                    *)
(***************************************************************************)
\* Ticks of the clock the model follows.
MaxClock == 2

TimelineInit == clock = 0 /\ pending = NoEvent

\* Time passes.
Tick ==
    /\ clock < MaxClock
    /\ clock' = clock + 1
    /\ UNCHANGED <<pending, risk_vars, anomaly_vars, guardian_vars, beside_timeline>>

\* A turn of the for loop of _process_security_events up to its suspension
\* (lines 165-178): the event is constructed, with its id and
\* timestamp=datetime.now(), and the loop awaits _analyze_event_with_ai, whose
\* predict calls sleep.
IngestBuild ==
    /\ ingest_pc = "events"
    /\ next_event_id < MaxEvents
    /\ LET rec == for_step(ingest_events).item
       IN  pending' = [id |-> event_uuid(next_event_id),
                       timestamp |-> clock,
                       event_type |-> rec.type,
                       severity |-> rec.severity,
                       source_ip |-> rec.source_ip,
                       is_anomaly |-> FALSE]
    /\ next_event_id' = next_event_id + 1
    /\ ingest_pc' = "analysis"
    /\ UNCHANGED <<clock, risk_vars, anomaly_vars, security_events, response_queue,
                   active_responses, ingest_provider, ingest_events, drain_vars, bg_tasks,
                   next_response_id, submitted, dequeued, manual_triggers, exec_log,
                   failures, beside_timeline>>

\* The analysis returns (lines 178-184): is_anomaly has set the flag and
\* updated the baseline, the event is appended with the timestamp it was built
\* with and, if it qualifies, handed to the orchestrator.
IngestAppend ==
    /\ ingest_pc = "analysis"
    /\ \E coin \in BOOLEAN :
          LET event == [pending EXCEPT !.is_anomaly = is_anomaly(baseline_patterns, pending, coin)]
          IN  /\ baseline_patterns' = is_anomaly_patterns(baseline_patterns, pending)
              /\ analysed' = [analysed EXCEPT ![event.id] = @ + 1]
              /\ security_events' = deque_append(security_events, event)
              /\ IF needs_response(event)
                 THEN handle_incident(event)
                 ELSE UNCHANGED <<response_queue, submitted>>
    /\ pending' = NoEvent
    /\ ingest_events' = for_step(ingest_events).rest
    /\ IF for_step(ingest_events).rest = <<>>
       THEN IngestAdvance
       ELSE ingest_pc' = "events" /\ UNCHANGED ingest_provider
    /\ UNCHANGED <<clock, risk_vars, seen_pairs, last_call, active_responses, drain_vars,
                   bg_tasks, next_event_id, next_response_id, dequeued, manual_triggers,
                   exec_log, failures, loop_vars, disc_vars, health_vars, threat_vars,
                   dash_vars, api_vars, conf_vars, ws_vars>>

(***************************************************************************)
(* websocket_events                                                        *)
(***************************************************************************)
WsInit == ws_pc = "closed" /\ last_event_count = 0 /\ ws_sent = <<>> /\ ws_base = 0

\* list(guardian.security_events)[last_event_count:]
new_events(history, count) == SubSeq(history, count + 1, Len(history))

\* A client connects (lines 1080-1085): the handler takes the guardian and
\* last_event_count = len(guardian.security_events); its first pass through
\* the loop finds no new event and it sleeps 1 s.
WsConnect ==
    /\ ws_pc = "closed"
    /\ guardian_instance # "None"
    /\ last_event_count' = Len(security_events)
    /\ ws_base' = next_event_id
    /\ ws_pc' = "sleep"
    /\ UNCHANGED <<ws_sent, risk_vars, anomaly_vars, guardian_vars, beside_ws>>

\* The sleep ends and the loop runs once (lines 1087-1106): if the history is
\* longer than last_event_count the events behind that position are sent, in
\* order, and the count is updated.  The list and the count are taken before
\* the first send suspends, so appends made during the sends change neither.
WsPoll ==
    /\ ws_pc = "sleep"
    /\ LET current_event_count == Len(security_events) IN
       IF current_event_count > last_event_count
       THEN /\ ws_sent' = ws_sent \o [i \in DOMAIN new_events(security_events, last_event_count) |->
                                         new_events(security_events, last_event_count)[i].id]
            /\ last_event_count' = current_event_count
       ELSE UNCHANGED <<ws_sent, last_event_count>>
    /\ UNCHANGED <<ws_pc, ws_base, risk_vars, anomaly_vars, guardian_vars, beside_ws>>

(***************************************************************************)
(* Specifications                                                          *)
(***************************************************************************)
\* SecureCloudAIGuardian.__init__ and AutomatedResponseOrchestrator.__init__,
\* then start_monitoring: every loop at the top of its first cycle.
\* The orchestrator and the positions of the ingestion and drain loops.
PipelineInit ==
    /\ response_queue = <<>>
    /\ active_responses = <<>>
    /\ ingest_pc = "fetch"
    /\ ingest_provider = 1
    /\ ingest_events = <<>>
    /\ drain_pc = "idle"
    /\ drain_event = NoEvent
    /\ drain_done = <<>>
    /\ bg_tasks = <<>>
    /\ next_event_id = 0
    /\ next_response_id = 0
    /\ submitted = [i \in EventIds |-> 0]
    /\ dequeued = [i \in EventIds |-> 0]
    /\ manual_triggers = 0
    /\ exec_log = <<>>
    /\ failures = 0

GuardianInit == security_events = <<>> /\ PipelineInit

Init == RiskInit /\ AnomalyInit /\ GuardianInit /\ LoopsInit /\ DiscInit /\ HealthInit /\ ThreatInit
        /\ DashInit /\ AnalysisInit /\ ApiInit
    /\ ConfInit /\ TimelineInit /\ WsInit

\* The ingestion loop, the platform events of the discovery and model-health
\* loops, the response loop and the manual trigger, interleaved.
Next ==
    \/ IngestFetch
    \/ IngestEvent
    \/ IngestWake
    \/ _create_security_event
    \/ DrainStart
    \/ DrainAction
    \/ DrainEmpty
    \/ DrainWake
    \/ trigger_incident_response
    \/ RunBackgroundTask

Spec == Init /\ [][Next]_vars

\* The same, with _execute_action allowed to raise.
NextFault == Next \/ DrainActionFails

SpecFault == Init /\ [][NextFault]_vars

\* The risk scorer applied to every resource of Resources.
NextRisk == RiskDiscover \/ RiskScore \/ RiskNextCycle

SpecRisk == Init /\ [][NextRisk]_vars

\* The anomaly detector called with every sequence of events of AnomalyEvents.
NextAnomaly == IsAnomalyCall

SpecAnomaly == Init /\ [][NextAnomaly]_vars

\* The pipeline until the coordinator is shut down.
NextShutdown == (drain_pc # "cancelled" /\ Next) \/ Shutdown

SpecShutdown == Init /\ [][NextShutdown]_vars

\* The five loops, each ending its cycles normally or by an exception.
NextLoops == \E l \in Loops : LoopCycleDone(l) \/ LoopCycleRaises(l) \/ LoopWake(l)

SpecLoops == Init /\ [][NextLoops]_vars

\* The discovery loop alone, with assess_risk allowed to raise.
NextDiscovery == DiscCycleStart \/ DiscAssessReturns \/ DiscAssessRaises

SpecDiscovery == Init /\ [][NextDiscovery]_vars

\* The model health loop alone, with check_model_health allowed to raise.
NextHealth == HealthCycleStart \/ HealthCheckReturns \/ HealthCheckRaises

SpecHealth == Init /\ [][NextHealth]_vars

\* The threat intelligence loop alone, run on every history of ThreatHistories.
InitThreat ==
    /\ security_events \in ThreatHistories
    /\ PipelineInit
    /\ RiskInit /\ AnomalyInit /\ LoopsInit /\ DiscInit /\ HealthInit /\ ThreatInit
        /\ DashInit /\ AnalysisInit /\ ApiInit
    /\ ConfInit /\ TimelineInit /\ WsInit

NextThreat == ThreatRefreshStart \/ ThreatRefreshDone

SpecThreat == InitThreat /\ [][NextThreat]_vars

\* The dashboard asked while the threat intelligence loop runs, over every
\* history of DashHistories and every cache of DashCaches.
InitDashboard ==
    /\ security_events \in DashHistories
    /\ resources_cache \in DashCaches
    /\ PipelineInit /\ DiscLoopInit
    /\ RiskInit /\ AnomalyInit /\ LoopsInit /\ HealthInit /\ ThreatInit /\ DashInit
    /\ AnalysisInit /\ ApiInit
    /\ ConfInit /\ TimelineInit /\ WsInit

NextDashboard == ThreatRefreshStart \/ ThreatRefreshDone \/ GetDashboard

SpecDashboard == InitDashboard /\ [][NextDashboard]_vars

\* The five loops on an event loop whose timers fire: a sleep that has started
\* ends.  Whether a call made in a cycle returns is left open.
SpecLoopsFair ==
    /\ Init
    /\ [][NextLoops]_vars
    /\ \A l \in Loops : WF_vars(LoopWake(l))

\* One call of process_queue with no submission during it: the ingestion cycle
\* and the manual triggers come first and fill the queue, and process_queue is
\* called once the ingestion sleeps and no background task is left.  The timer
\* of _execute_action fires and a get on a queue that is not empty returns.
Filling ==
    \/ (ingest_pc # "sleep" /\ (IngestFetch \/ IngestEvent \/ _create_security_event
                                   \/ trigger_incident_response))
    \/ RunBackgroundTask

Draining ==
    /\ ingest_pc = "sleep"
    /\ bg_tasks = <<>>
    /\ (DrainStart \/ DrainAction \/ DrainEmpty)

NextDrain == Filling \/ Draining

SpecDrain ==
    /\ Init
    /\ [][NextDrain]_vars
    /\ WF_vars(Draining)

\* The two applications from their import on.  The ingestion loop of the
\* guardian runs once start_monitoring has been made a task, and only then.
InitApi ==
    /\ \E a \in Apps : ApiImport(a)
    /\ RiskInit /\ AnomalyInit /\ GuardianInit /\ LoopsInit /\ DiscInit /\ HealthInit
    /\ ThreatInit /\ DashInit /\ AnalysisInit
    /\ ConfInit /\ TimelineInit /\ WsInit

Monitoring == monitoring_task = "running" /\ (IngestFetch \/ IngestEvent \/ IngestWake)

NextApi == lifespan \/ get_security_events \/ dashboard_index \/ Monitoring

SpecApi == InitApi /\ [][NextApi]_vars

\* The threat intelligence loop on a collected history that ingestion keeps
\* extending with analysed events.
InitConfidence ==
    /\ security_events \in ConfidenceHistories
    /\ baseline_patterns =
          [k \in {pattern_key(S_LOGIN_ATTEMPT, S_ip)} |-> [count |-> Len(security_events)]]
    /\ seen_pairs = {}
    /\ last_call = [kind |-> "none"]
    /\ response_queue = <<>>
    /\ active_responses = <<>>
    /\ ingest_pc = "fetch" /\ ingest_provider = 1 /\ ingest_events = <<>>
    /\ drain_pc = "idle" /\ drain_event = NoEvent /\ drain_done = <<>>
    /\ bg_tasks = <<>>
    /\ next_event_id = Len(security_events)
    /\ next_response_id = 0
    /\ submitted = [i \in EventIds |-> 0]
    /\ dequeued = [i \in EventIds |-> 0]
    /\ manual_triggers = 0
    /\ exec_log = <<>>
    /\ failures = 0
    /\ RiskInit /\ LoopsInit /\ DiscInit /\ HealthInit /\ ThreatInit
    /\ DashInit /\ AnalysisInit /\ ApiInit /\ ConfInit /\ TimelineInit /\ WsInit

NextConfidence == ConfidenceIngest \/ ThreatRefreshStart \/ ThreatRefreshDone

SpecConfidence == InitConfidence /\ [][NextConfidence]_vars

\* The pipeline with the response loop scheduled fairly: the event loop runs a
\* task that is ready, and the timers of _execute_action and of the handler's
\* sleep fire.  Nothing is assumed of the loops that submit.
Drain == DrainStart \/ DrainAction \/ DrainEmpty \/ DrainWake

SpecResponses ==
    /\ Init
    /\ [][Next]_vars
    /\ WF_vars(Drain)

\* The loops that append events, with time passing: the ingestion, suspended
\* in the analysis of each event between building and appending it, and the
\* platform events of the discovery and model-health loops.
NextTimeline ==
    \/ IngestFetch
    \/ IngestBuild
    \/ IngestAppend
    \/ IngestWake
    \/ _create_security_event
    \/ Tick

SpecTimeline == Init /\ [][NextTimeline]_vars

\* One WebSocket client beside the loops that append events.  The timer of
\* the handler's sleep fires.
NextWebSocket ==
    \/ IngestFetch
    \/ IngestEvent
    \/ IngestWake
    \/ _create_security_event
    \/ WsConnect
    \/ WsPoll

SpecWebSocket ==
    /\ Init
    /\ [][NextWebSocket]_vars
    /\ WF_vars(WsPoll)

(***************************************************************************)
(* Properties                                                              *)
(***************************************************************************)
Scored == resource # NoResource /\ ai_risk # -1

\* C1: every score _calculate_risk_score returns lies in [0.0, 1.0], also when
\* every factor fires at once.
C1_RiskScoreInUnitInterval ==
    resource # NoResource => resource.risk_score >= 0 /\ resource.risk_score <= 100

\* Two strings equal up to the case of their letters.
SameLetter(c, d) ==
    \/ c = d
    \/ \E i \in DOMAIN UpperChars : {c, d} = {UpperChars[i], LowerChars[i]}

CaseInsensitiveEq(v, w) ==
    /\ Len(v) = Len(w)
    /\ \A i \in 1..Len(v) : SameLetter(v[i], w[i])

AllFactorsFire ==
    /\ Scored
    /\ resource.security_group_ids = <<>>
    /\ \E k \in DOMAIN resource.tags : resource.tags[k] = S_PUBLIC
    /\ Now - resource.last_accessed = 1080
    /\ ai_risk = 50

C1_Witness == AllFactorsFire /\ resource.risk_score = 100

\* C2: the score is min(sum of the factors, 1.0): 0.3 for no security group, 0.5
\* for a tag value equal to "public" or "open" whatever its case, 0.2 for more
\* than 30 whole days since the last access (31 days are 744 hours), plus the
\* model's value.
C2_RiskScoreIsCappedSum ==
    Scored =>
        LET no_groups == IF Len(resource.security_group_ids) = 0 THEN 30 ELSE 0
            public == IF \E k \in DOMAIN resource.tags :
                             \/ CaseInsensitiveEq(resource.tags[k], S_public)
                             \/ CaseInsensitiveEq(resource.tags[k], S_open)
                      THEN 50 ELSE 0
            unused == IF Now - resource.last_accessed >= 744 THEN 20 ELSE 0
            total == no_groups + public + unused + ai_risk
        IN  resource.risk_score = (IF total > 100 THEN 100 ELSE total)

\* No security group, tag "public", 45 days, model factor 0.5: exactly 1.0.
C2_Witness ==
    /\ Scored
    /\ resource.security_group_ids = <<>>
    /\ resource.tags = [k \in {"Access"} |-> S_public]
    /\ Now - resource.last_accessed = 1080
    /\ ai_risk = 50
    /\ resource.risk_score = 100

\* C3: the history never holds more than Capacity events, and every append puts
\* the new event last, in front of it the events held before, without the oldest
\* when the history was full.
C3_HistoryBounded ==
    /\ [](Len(security_events) <= Capacity)
    /\ [][next_event_id' # next_event_id =>
            LET old == security_events
                new == security_events'
                kept == IF Len(old) = Capacity THEN SubSeq(old, 2, Len(old)) ELSE old
            IN  /\ Len(new) >= 1
                /\ new[Len(new)].id = next_event_id'
                /\ \A i \in DOMAIN old : old[i].id # next_event_id'
                /\ SubSeq(new, 1, Len(new) - 1) = kept]_vars

\* A full history that has dropped its first event and holds the newest one.
C3_Witness ==
    /\ Len(security_events) = Capacity
    /\ security_events[1].id > 1
    /\ security_events[Capacity].id = next_event_id

\* C4: is_anomaly returns true for every LOGIN_ATTEMPT event of severity
\* CRITICAL, whatever the baseline map holds.
C4_CriticalLoginAlwaysAnomalous ==
    (/\ last_call # NoCall
     /\ last_call.event.event_type = S_LOGIN_ATTEMPT
     /\ last_call.event.severity = "CRITICAL")
    => last_call.result = TRUE

\* C5: the first occurrence of a (type, source) pair is not an anomaly and gets
\* a baseline entry of its own, which no other pair shares.
C5_FirstOccurrenceNeverAnomalous ==
    /\ (last_call # NoCall /\ last_call.first_of_pair) => last_call.result = FALSE
    /\ \A p \in seen_pairs : pattern_key(p[1], p[2]) \in DOMAIN baseline_patterns
    /\ \A p, q \in seen_pairs : p # q => pattern_key(p[1], p[2]) # pattern_key(q[1], q[2])

InProgress(id) == drain_event # NoEvent /\ drain_event.event.id = id

ResponsesOf(id) == {r \in DOMAIN active_responses : active_responses[r].event_id = id}

\* C6: the response of a CRITICAL event lists isolate_resource,
\* notify_security_team, create_incident_ticket, in that order, anomaly or not;
\* these are the actions executed, in that order; and when the orchestrator is
\* done with a CRITICAL event that response is recorded.
C6_CriticalResponse ==
    /\ [](\A r \in DOMAIN active_responses :
            exec_log[r].event.severity = "CRITICAL" =>
                /\ active_responses[r].event_id = exec_log[r].event.id
                /\ active_responses[r].actions =
                       <<"isolate_resource", "notify_security_team", "create_incident_ticket">>
                /\ exec_log[r].executed = active_responses[r].actions)
    /\ [][(/\ drain_event # NoEvent
           /\ drain_event.event.severity = "CRITICAL"
           /\ drain_event' # drain_event)
          => \E r \in DOMAIN active_responses' :
                /\ r \notin DOMAIN active_responses
                /\ active_responses'[r].event_id = drain_event.event.id
                /\ Len(active_responses'[r].actions) = 3]_vars

\* A recorded response of an event that is CRITICAL and an anomaly.
C6_Witness ==
    \E r \in DOMAIN active_responses :
        /\ exec_log[r].event.severity = "CRITICAL"
        /\ exec_log[r].event.is_anomaly
        /\ active_responses[r].actions = CriticalActions

\* C7: a recorded response of an event that is not CRITICAL belongs to an
\* anomaly and lists increase_monitoring, notify_admin; an event that is neither
\* CRITICAL nor an anomaly has no response recorded, manual trigger included.
C7_NonCriticalResponse ==
    \A r \in DOMAIN active_responses :
        exec_log[r].event.severity # "CRITICAL" =>
            /\ exec_log[r].event.is_anomaly
            /\ active_responses[r].actions = <<"increase_monitoring", "notify_admin">>

\* C8: every completed processing of an event has a response of its own: the
\* responses that reference an event id, under distinct response ids, are as
\* many as the times the orchestrator has finished with that event.
C8_IndependentResponses ==
    \A id \in EventIds :
        Cardinality(ResponsesOf(id)) = dequeued[id] - (IF InProgress(id) THEN 1 ELSE 0)

\* One event, submitted twice, with two responses.
C8_Witness ==
    \E id \in EventIds :
        /\ submitted[id] = 2
        /\ \E r1, r2 \in ResponsesOf(id) : r1 # r2

RECURSIVE SumOver(_, _)
SumOver(f, S) ==
    IF S = {} THEN 0
    ELSE LET x == CHOOSE y \in S : TRUE IN f[x] + SumOver(f, S \ {x})

\* C9: with no action failure and no shutdown, the submissions made are the
\* events still queued, the one in progress and the responses recorded.
C9_NoSubmissionLost ==
    SumOver(submitted, EventIds)
        = Len(response_queue)
          + (IF drain_event # NoEvent THEN 1 ELSE 0)
          + Cardinality(DOMAIN active_responses)

\* Submissions of the ingestion loop and of a manual trigger, with one event
\* queued, one in progress and one response recorded.
C9_Witness ==
    /\ manual_triggers > 0
    /\ bg_tasks = <<>>
    /\ Len(response_queue) >= 1
    /\ drain_event # NoEvent
    /\ Cardinality(DOMAIN active_responses) >= 1

\* C10: an action that fails does not end the work on its event: every event
\* taken from the queue is still being executed or has its response recorded.
C10_FailureKeepsResponse ==
    \A id \in EventIds :
        dequeued[id] > 0 => InProgress(id) \/ ResponsesOf(id) # {}

\* C11: a shutdown leaves no event taken from the queue without its response:
\* when the loops have stopped, the response loop holds no event whose actions
\* are still to be executed.
C11_GracefulDrain == drain_pc = "cancelled" => drain_event = NoEvent

\* C12: an exception in a cycle of one loop is caught by that loop, which
\* sleeps and starts another cycle; start_monitoring neither returns nor raises,
\* and a step of one loop leaves the other four where they are.
C12_LoopsSurviveExceptions ==
    /\ [](coordinator = "running" /\ \A l \in Loops : loop_pc[l] \in {"cycle", "sleep", "error"})
    /\ [][\A l \in Loops :
            /\ (loop_pc[l] = "error" /\ loop_pc'[l] # "error") => loop_pc'[l] = "cycle"
            /\ loop_pc'[l] # loop_pc[l] =>
                  \A m \in Loops \ {l} : loop_pc'[m] = loop_pc[m]]_vars

\* One loop sleeps after a caught exception while the other four run their cycles.
C12_Witness ==
    /\ loop_pc["events"] = "error"
    /\ \A l \in Loops \ {"events"} : loop_pc[l] = "cycle"
    /\ coordinator = "running"

\* C13: the sleep after a caught error is strictly shorter than the period of
\* the loop: 300 s, 30 s, 600 s, 1800 s and 10 s.
C13_ErrorSleepShorter ==
    LET period == [l \in Loops |->
                      CASE l = "resources" -> 300
                        [] l = "events" -> 30
                        [] l = "models" -> 600
                        [] l = "threats" -> 1800
                        [] l = "responses" -> 10]
    IN  \A l \in Loops : loop_pc[l] = "error" => loop_sleep[l] < period[l]

\* C14: when a discovery cycle is over, a resource whose assess_risk call
\* failed carries the score of its remaining factors, and every other resource
\* of every provider was discovered and scored in that cycle.
C14_DegradedScoring ==
    (disc_pc \in {"sleep", "error"} /\ disc_failed # {}) =>
        \A k \in DOMAIN ProviderOrder :
            LET p == ProviderOrder[k]
            IN  /\ p \in DOMAIN resources_cache
                /\ \A i \in DOMAIN resources_cache[p] :
                      IF <<p, i>> \in disc_failed
                      THEN resources_cache[p][i].risk_score =
                               _calculate_risk_score(resources_cache[p][i], Now, 0)
                      ELSE <<p, i>> \in disc_scored

\* C16: whenever the discovery loop is suspended, every cached resource
\* carries the capped sum of its risk factors, so that no cached list mixes
\* scored and unscored resources.
C16_CacheAlwaysScored ==
    \A p \in DOMAIN resources_cache :
        \A i \in DOMAIN resources_cache[p] :
            /\ disc_ai[p][i] >= 0
            /\ resources_cache[p][i].risk_score =
                   _calculate_risk_score(resources_cache[p][i], Now, disc_ai[p][i])

\* C15: when a model-health cycle is over and the check of one model failed
\* in it, every other model was checked in that cycle.
C15_HealthChecksIndependent ==
    (health_pc \in {"sleep", "error"} /\ health_failed # {}) =>
        \A k \in DOMAIN ModelOrder :
            ModelOrder[k] \notin health_failed => ModelOrder[k] \in health_checked

\* The event types of the window, and the number of its events of one type.
WindowTypes == {threat_recent[i].event_type : i \in DOMAIN threat_recent}

WindowCount(t) == Cardinality({i \in DOMAIN threat_recent : threat_recent[i].event_type = t})

PatternsOf(t) == {i \in DOMAIN threat_patterns : threat_patterns[i].pattern_type = t}

\* C17: analyze_patterns returns exactly one pattern for each event type with
\* more than 3 events in the list and none for a type with 3 or fewer; the
\* pattern carries the type, the number n of events and min(n x 0.1, 0.95).
C17_OnePatternPerLargeGroup ==
    refreshes >= 1 =>
        /\ \A i \in DOMAIN threat_patterns : threat_patterns[i].pattern_type \in WindowTypes
        /\ \A t \in WindowTypes :
              LET n == WindowCount(t)
              IN  IF n > 3
                  THEN /\ Cardinality(PatternsOf(t)) = 1
                       /\ \A i \in PatternsOf(t) :
                             /\ threat_patterns[i].event_count = n
                             /\ threat_patterns[i].confidence =
                                    (IF n * 10 <= 95 THEN n * 10 ELSE 95)
                  ELSE PatternsOf(t) = {}

\* 4 events of one type give one pattern of confidence 0.4, and the 3 events
\* of the other type give none.
C17_Witness ==
    /\ refreshes >= 1
    /\ WindowCount(S_LOGIN_ATTEMPT) = 4
    /\ WindowCount(S_CONFIG_CHANGE) = 3
    /\ Len(threat_patterns) = 1
    /\ threat_patterns[1].pattern_type = S_LOGIN_ATTEMPT
    /\ threat_patterns[1].confidence = 40

\* The events of type t of the history that are less than 24 hours old.
RecentCount(t) ==
    Cardinality({i \in DOMAIN security_events :
                    /\ security_events[i].event_type = t
                    /\ Now - security_events[i].timestamp < 24})

\* C18: every entry of active_threats has a confidence above 0.8 and stands
\* for at least 9 events of its type in the trailing 24 hours; after a refresh
\* a type has an entry exactly when it has 9 or more such events, so that a
\* pattern of confidence 0.8 or lower is never promoted and one of 9 events is.
C18_OnlyConfidentPatternsPromoted ==
    /\ \A id \in DOMAIN active_threats :
          /\ active_threats[id].confidence > 80
          /\ active_threats[id].event_count >= 9
          /\ active_threats[id].event_count = RecentCount(active_threats[id].pattern_type)
    /\ refreshes >= 1 =>
          \A t \in {S_LOGIN_ATTEMPT, S_CONFIG_CHANGE} :
              RecentCount(t) >= 9 <=>
                  \E id \in DOMAIN active_threats : active_threats[id].pattern_type = t

\* A pattern of 9 events is in the map and a reported pattern of 4 events is not.
C18_Witness ==
    /\ \E id \in DOMAIN active_threats :
          active_threats[id].event_count = 9 /\ active_threats[id].confidence = 90
    /\ \E i \in DOMAIN threat_patterns :
          /\ threat_patterns[i].event_count = 4
          /\ threat_patterns[i].pattern_id \notin DOMAIN active_threats

\* A pattern without its id.
PatternSet(patterns) ==
    {<<patterns[i].pattern_type, patterns[i].confidence, patterns[i].event_count>> :
        i \in DOMAIN patterns}

C20_RefreshIdempotent == refreshes >= 1 => active_threats = first_threats

\* The events of the history less than 24 hours old at the query.
WithinWindow == {i \in DOMAIN security_events : Now - security_events[i].timestamp < 24}

\* C21: recent_events of the dashboard is the number of events of the history
\* whose timestamp is less than 24 hours before the query: an event 23 hours
\* old counts, one 25 hours old does not, and one exactly 24 hours old does not
\* either, the window being open at its old end.
C21_RecentEventsCount ==
    dashboard # NoSnapshot => dashboard.recent_events = Cardinality(WithinWindow)

\* A snapshot of a history with an event 25, one 24 and one 23 hours old.
C21_Witness ==
    /\ dashboard # NoSnapshot
    /\ \E i, j, k \in DOMAIN security_events :
          /\ Now - security_events[i].timestamp = 25
          /\ Now - security_events[j].timestamp = 24
          /\ Now - security_events[k].timestamp = 23
    /\ dashboard.recent_events = Cardinality(DOMAIN security_events) - 2

\* C22: a get_dashboard_data call leaves the resource cache with its risk
\* scores, the history, the active threats, the anomaly baselines, the response
\* queue and the recorded responses as they were.
C22_DashboardReadsOnly ==
    [][queries' # queries =>
          UNCHANGED <<resources_cache, security_events, active_threats, baseline_patterns,
                      response_queue, active_responses>>]_vars

\* A snapshot of a state that holds scored resources, an active threat and
\* events outside the window.
C22_Witness ==
    /\ queries >= 1
    /\ dashboard.high_risk_resources >= 1
    /\ dashboard.active_threats >= 1
    /\ dashboard.recent_events < Len(security_events)

\* The ids of the events appended to the history so far, evicted or not: an id
\* is drawn for an event that is then appended, and for nothing else.
AppendedIds == {event_uuid(n) : n \in 0..(next_event_id - 1)}

\* C23: the event of every recorded response, of every queued submission and
\* of every pending manual trigger is in the history or was in it before it
\* was evicted; nothing is submitted that was not appended first.
C23_ResponsesReferToAppendedEvents ==
    /\ \A r \in DOMAIN active_responses : active_responses[r].event_id \in AppendedIds
    /\ \A i \in DOMAIN response_queue : response_queue[i].id \in AppendedIds
    /\ \A i \in DOMAIN bg_tasks : bg_tasks[i].id \in AppendedIds
    /\ \A id \in EventIds : submitted[id] > 0 => id \in AppendedIds
    /\ \A i \in DOMAIN security_events : security_events[i].id \in AppendedIds

\* A recorded response whose event the history has evicted since.
C23_Witness ==
    \E r \in DOMAIN active_responses :
        /\ active_responses[r].event_id \in AppendedIds
        /\ \A i \in DOMAIN security_events :
              security_events[i].id # active_responses[r].event_id

\* C24: the analysis has assigned ai_confidence and is_anomaly exactly once to
\* every event of the history, ingested or made by the platform itself.
C24_EveryEventAnalysedOnce ==
    \A i \in DOMAIN security_events : analysed[security_events[i].id] = 1

\* C25: a turn of the ingestion loop appends the event of the first fetched
\* record that has no event yet, so that the events of one fetch enter the
\* history in the order of the fetched list, whatever the other loops append
\* in between; the ids, drawn in that order, grow along the history.
C25_AppendedInFetchOrder ==
    /\ [](\A i, j \in DOMAIN security_events :
             i < j => security_events[i].id < security_events[j].id)
    /\ [][(ingest_pc = "events" /\ ingest_events' # ingest_events) =>
             LET rec == Head(ingest_events)
                 e == security_events'[Len(security_events')]
             IN  /\ e.id = event_uuid(next_event_id)
                 /\ e.event_type = rec.type
                 /\ e.severity = rec.severity
                 /\ e.source_ip = rec.source_ip
                 /\ ingest_events' = Tail(ingest_events)]_vars

\* The first of two fetched records has its event in the history, a platform
\* event came after it, and the second record is still to be appended.
C25_Witness ==
    /\ ingest_pc = "events"
    /\ Len(ingest_events) = 1
    /\ Len(security_events) = 2
    /\ security_events[1].event_type = S_LOGIN_ATTEMPT
    /\ security_events[1].severity # ingest_events[1].severity
    /\ security_events[2].event_type = S_HIGH_RISK_RESOURCE

\* The events a step has appended to the history, oldest first.
AppendedByStep ==
    LET k == next_event_id' - next_event_id
    IN  SubSeq(security_events', Len(security_events') - k + 1, Len(security_events'))

\* C26: the check of a model appends a MODEL_DRIFT event exactly when its
\* drift score is above 0.3 and a MODEL_ATTACK event exactly when its
\* adversarial attempts are above 10, each rule by itself: both events for a
\* model above both thresholds, none for values of exactly 0.3 and 10.
C26_EscalationRules ==
    [][(health_pc = "check" /\ health_metrics' # health_metrics) =>
          LET metrics == health_metrics'[ModelOrder[health_index]]
              new == AppendedByStep
              drifts == {i \in DOMAIN new : new[i].event_type = S_MODEL_DRIFT}
              attacks == {i \in DOMAIN new : new[i].event_type = S_MODEL_ATTACK}
          IN  /\ Cardinality(drifts) = (IF metrics.drift_score > 30 THEN 1 ELSE 0)
              /\ Cardinality(attacks) = (IF metrics.adversarial_attempts > 10 THEN 1 ELSE 0)
              /\ Len(new) = Cardinality(drifts) + Cardinality(attacks)
              /\ \A i \in DOMAIN new : new[i].severity = "HIGH"]_vars

\* The first model is above both thresholds and has made both events; the
\* second is exactly at both and has made none.
C26_Witness ==
    /\ health_checked = {ModelOrder[1], ModelOrder[2]}
    /\ health_metrics[ModelOrder[1]].drift_score = 31
    /\ health_metrics[ModelOrder[1]].adversarial_attempts = 11
    /\ health_metrics[ModelOrder[2]].drift_score = 30
    /\ health_metrics[ModelOrder[2]].adversarial_attempts = 10
    /\ Len(security_events) = 2
    /\ security_events[1].event_type = S_MODEL_DRIFT
    /\ security_events[2].event_type = S_MODEL_ATTACK
    /\ next_event_id = 2

\* C27: a loop whose own calls return (or raise) ends cycle after cycle for
\* ever, wherever the other four loops are: suspended in a call that never
\* returns, or asleep after an error.
C27_LoopsProgressIndependently ==
    \A l \in Loops :
        WF_vars(LoopCycleDone(l) \/ LoopCycleRaises(l)) =>
            ([]<>(loop_pc[l] = "cycle") /\ []<>(loop_pc[l] # "cycle"))

\* The discovery loop is still inside its first cycle, the ingestion loop
\* sleeps after an error, and the other three have each ended a cycle.
C27_Witness ==
    /\ loop_pc["resources"] = "cycle"
    /\ loop_pc["events"] = "error"
    /\ \A l \in Loops \ {"resources", "events"} : loop_pc[l] = "sleep"

\* C28: process_queue, called when nothing more is submitted, returns: at once
\* on an empty queue, and otherwise after it has taken every queued event in
\* the order of the queue and recorded a response for each, the queue empty.
C28_ProcessQueueDrainsInOrder ==
    /\ (ingest_pc = "sleep" /\ bg_tasks = <<>>) ~> (drain_pc = "sleep" /\ response_queue = <<>>)
    /\ [](drain_pc = "sleep" =>
             /\ response_queue = <<>>
             /\ \A id \in EventIds : Cardinality(ResponsesOf(id)) = submitted[id])
    /\ [][Len(response_queue') < Len(response_queue) =>
             /\ response_queue' = Tail(response_queue)
             /\ \/ drain_event' # NoEvent /\ drain_event'.event = Head(response_queue)
                \/ \E r \in DOMAIN active_responses' \ DOMAIN active_responses :
                      active_responses'[r].event_id = Head(response_queue).id]_vars

\* process_queue has returned after two events of different severity: their
\* responses, numbered in the order they were made, follow the order of the ids.
C28_Witness ==
    /\ drain_pc = "sleep"
    /\ response_queue = <<>>
    /\ \E r1, r2 \in DOMAIN active_responses :
          /\ r1 < r2
          /\ active_responses[r1].event_id < active_responses[r2].event_id
          /\ active_responses[r1].actions # active_responses[r2].actions

\* C29: a submission is queued, then taken from the head of the queue and in
\* progress, then completed, and never goes back: the response is recorded in
\* the step that ends the last selected action (so that its timestamp is the
\* completion time), not before and not later, with status completed; once
\* recorded it is neither changed nor removed.  An event with no action
\* selected is taken and completed in one step, which has no suspension.
C29_ResponseLifecycle ==
    /\ [](\A r \in DOMAIN active_responses :
             /\ active_responses[r].status = "completed"
             /\ exec_log[r].executed = active_responses[r].actions)
    /\ [](drain_event # NoEvent =>
             /\ drain_event.response_id \notin DOMAIN active_responses
             /\ Len(drain_done) < Len(drain_event.actions))
    /\ [][/\ \A r \in DOMAIN active_responses :
                r \in DOMAIN active_responses' /\ active_responses'[r] = active_responses[r]
          /\ \A r \in DOMAIN active_responses' \ DOMAIN active_responses :
                \/ /\ drain_event # NoEvent
                   /\ drain_event.response_id = r
                   /\ drain_event.event.id = active_responses'[r].event_id
                   /\ Len(drain_done) + 1 = Len(drain_event.actions)
                   /\ drain_event' = NoEvent
                \/ /\ drain_event = NoEvent
                   /\ response_queue # <<>>
                   /\ Head(response_queue).id = active_responses'[r].event_id
                   /\ response_queue' = Tail(response_queue)
                   /\ active_responses'[r].actions = <<>>
          /\ (drain_event = NoEvent /\ drain_event' # NoEvent) =>
                /\ response_queue # <<>>
                /\ drain_event'.event = Head(response_queue)
                /\ response_queue' = Tail(response_queue)
          /\ (drain_event # NoEvent /\ drain_event' # drain_event) =>
                /\ drain_event' = NoEvent
                /\ response_queue' = response_queue
                /\ \/ drain_event.response_id \in DOMAIN active_responses'
                   \/ failures' > failures]_vars

\* One submission completed, one in progress with two of its three actions
\* done, and one queued.
C29_Witness ==
    /\ Cardinality(DOMAIN active_responses) = 1
    /\ drain_event # NoEvent
    /\ Len(drain_event.actions) = 3
    /\ Len(drain_done) = 2
    /\ Len(response_queue) = 1


\* The guardian's state is unavailable: no guardian, or its loops not started.
Unavailable == guardian_instance = "None" \/ monitoring_task = "None"

\* C30: a data query made while the guardian is not initialised or its
\* monitoring loops are not started is answered "service not ready" (503),
\* never with data.
C30_NotReadyIsNeverAnsweredWithData ==
    [][(requests' # requests /\ Unavailable) => api_reply'.status = 503]_vars


\* C31: the ai_confidence of every event of the history and the confidence of
\* every emitted pattern and of every active threat lie in [0, 1], the
\* predictions lying in [0, 1].
C31_ConfidencesInUnitInterval ==
    /\ \A i \in DOMAIN security_events :
          security_events[i].ai_confidence >= 0 /\ security_events[i].ai_confidence <= 100
    /\ \A i \in DOMAIN threat_patterns :
          threat_patterns[i].confidence >= 0 /\ threat_patterns[i].confidence <= 100
    /\ \A k \in DOMAIN active_threats :
          active_threats[k].confidence >= 0 /\ active_threats[k].confidence <= 100

\* An event analysed with both predictions at 1.0 has been appended and a
\* pattern of more than nine events is an active threat.
C31_Witness ==
    /\ ingested > 0
    /\ security_events[Len(security_events)].ai_confidence = 100
    /\ \E k \in DOMAIN active_threats : active_threats[k].confidence = 95


\* C32: no step removes or changes an entry of active_threats: a promoted
\* pattern id stays in the map with the type, confidence and event count it was
\* promoted with, and the size of the map never decreases.
C32_ActiveThreatsOnlyGrow ==
    [][/\ \A k \in DOMAIN active_threats :
             k \in DOMAIN active_threats' /\ active_threats'[k] = active_threats[k]
       /\ Cardinality(DOMAIN active_threats') >= Cardinality(DOMAIN active_threats)]_vars

\* Two refreshes have each promoted a pattern of the same type, the second
\* over a window that had grown by an event.
C32_Witness ==
    /\ refreshes = 2
    /\ \E j, k \in DOMAIN active_threats :
          /\ active_threats[j].pattern_type = active_threats[k].pattern_type
          /\ active_threats[j].event_count < active_threats[k].event_count


\* The step runs lines 135-136 for the provider the loop stands at afterwards.
Discovers == disc_pc' = "assess" /\ (disc_cycles' # disc_cycles \/ disc_provider' # disc_provider)

\* cache[q][i] as the step leaves it, given that the step may also store the
\* score of the resource whose assess_risk has just returned.
KeptBut(q, i) ==
    IF disc_pc = "assess" /\ q = ProviderOrder[disc_provider] /\ i = disc_index
    THEN [resources_cache'[q][i] EXCEPT !.risk_score = 0]
            = [resources_cache[q][i] EXCEPT !.risk_score = 0]
    ELSE resources_cache'[q][i] = resources_cache[q][i]

\* C33: a discovery step for one provider makes the newly discovered list that
\* provider's cached list, whatever the cache held for it, and leaves the lists
\* of every other provider, resource by resource and score by score, as they
\* were.
C33_DiscoveryReplacesOneProvider ==
    [][Discovers =>
          LET provider == ProviderOrder[disc_provider'] IN
          /\ resources_cache'[provider] \in discover_resources
          /\ \A q \in DOMAIN resources_cache \ {provider} :
                /\ q \in DOMAIN resources_cache'
                /\ DOMAIN resources_cache'[q] = DOMAIN resources_cache[q]
                /\ \A i \in DOMAIN resources_cache[q] : KeptBut(q, i)]_vars

\* The second cycle has rediscovered the first provider, one resource where
\* there were two scored ones, and the lists of the two other providers stand
\* with the scores of the first cycle.
C33_Witness ==
    /\ disc_cycles = 2
    /\ DOMAIN resources_cache = {ProviderOrder[k] : k \in DOMAIN ProviderOrder}
    /\ disc_provider = 1
    /\ disc_index = 1
    /\ disc_pc = "assess"
    /\ Len(resources_cache[ProviderOrder[1]]) = 1
    /\ resources_cache[ProviderOrder[1]][1].risk_score = 0
    /\ Len(resources_cache[ProviderOrder[2]]) = 2
    /\ resources_cache[ProviderOrder[3]][1].risk_score > 0


\* C34: with the response loop scheduled fairly, no action failing and no
\* shutdown, every submission of an event is followed by a response recorded
\* for it: an event submitted n times comes to have n responses.
C34_EverySubmissionAnswered ==
    \A id \in EventIds : \A n \in 1..(1 + MaxManual) :
        (submitted[id] >= n) ~> (Cardinality(ResponsesOf(id)) >= n)

\* Three submissions, one of them of an event submitted before, all answered.
C34_Witness ==
    /\ SumOver(submitted, EventIds) >= 3
    /\ \E id \in EventIds : submitted[id] = 2
    /\ \A id \in EventIds : Cardinality(ResponsesOf(id)) = submitted[id]
    /\ response_queue = <<>>
    /\ drain_event = NoEvent


\* C35: the step that creates an event submits it, once and behind the events
\* already queued, exactly when the event is an ingested one that is CRITICAL
\* or was found anomalous; the event is in the history by then.  A platform
\* event is not submitted by the step that creates it, and a submission made
\* in any later step is one of a manual trigger.
C35_SubmittedIffCriticalOrAnomaly ==
    /\ [][next_event_id' # next_event_id =>
             LET e == security_events'[Len(security_events')] IN
             /\ e.id = next_event_id'
             /\ IF ingest_events' # ingest_events /\ (e.severity = "CRITICAL" \/ e.is_anomaly)
                THEN /\ submitted'[e.id] = 1
                     /\ response_queue' = Append(response_queue, e)
                ELSE /\ submitted'[e.id] = 0
                     /\ response_queue' = response_queue]_vars
    /\ [][\A id \in EventIds :
             (submitted'[id] > submitted[id] /\ next_event_id' = next_event_id)
                 => Len(bg_tasks') < Len(bg_tasks)]_vars

\* Three events were created and one of them submitted; the two the history
\* holds, a platform event and an ingested MEDIUM event that is no anomaly,
\* were not.
C35_Witness ==
    /\ next_event_id = 3
    /\ manual_triggers = 0
    /\ SumOver(submitted, EventIds) = 1
    /\ Len(security_events) = 2
    /\ \E i, j \in DOMAIN security_events :
          /\ security_events[i].event_type \in PlatformEventTypes
          /\ security_events[j].event_type \notin PlatformEventTypes
          /\ security_events[j].severity = "MEDIUM"
          /\ submitted[security_events[i].id] = 0
          /\ submitted[security_events[j].id] = 0


\* C36: under every interleaving of the loops that append events the history
\* is in non-decreasing timestamp order, and the event an append evicts has
\* the earliest timestamp of the history.
C36_HistoryInTimestampOrder ==
    /\ [](\A i, j \in DOMAIN security_events :
             i < j => security_events[i].timestamp <= security_events[j].timestamp)
    /\ [][(Len(security_events) = Capacity /\ security_events' # security_events)
             => \A i \in DOMAIN security_events :
                   security_events[1].timestamp <= security_events[i].timestamp]_vars


\* C37: a manual trigger is answered 404 exactly when its event id is not in
\* the history at that moment, never drawn or evicted since, and a trigger so
\* answered leaves the response queue, the recorded responses and the pending
\* background tasks as they were.
C37_UnknownEventNotFound ==
    [][api_reply' # api_reply =>
          /\ api_reply'.status = 404 <=>
                \A i \in DOMAIN security_events : security_events[i].id # api_reply'.event_id
          /\ api_reply'.status = 404 =>
                /\ response_queue' = response_queue
                /\ active_responses' = active_responses
                /\ bg_tasks' = bg_tasks
                /\ submitted' = submitted]_vars

\* A trigger for an evicted event was answered 404 while a submission is queued.
C37_Witness ==
    /\ api_reply.status = 404
    /\ api_reply.event_id \in AppendedIds
    /\ Len(security_events) = Capacity
    /\ response_queue # <<>>


\* C38: every event appended after the client connected is eventually sent to
\* it, also when the append evicts an old event; the ids sent are those of
\* such events, each once, in the order of the history.
C38_ClientReceivesEveryNewEvent ==
    /\ \A id \in EventIds :
          (ws_pc # "closed" /\ id \in AppendedIds /\ id > ws_base)
              ~> (\E k \in DOMAIN ws_sent : ws_sent[k] = id)
    /\ [](\A j, k \in DOMAIN ws_sent :
             /\ ws_sent[j] > ws_base
             /\ j < k => ws_sent[j] < ws_sent[k])


\* C39: the step that scores a resource appends one HIGH_RISK_RESOURCE event of
\* severity HIGH when the score is above 0.7 and nothing when it is 0.7 or
\* lower; when the first cycle is over the events made are as many as the
\* resources the dashboard counts as high risk.
C39_OneEventPerHighRiskResource ==
    /\ [][disc_scored' \ disc_scored # {} =>
             LET score ==
                     resources_cache'[ProviderOrder[disc_provider]][disc_index].risk_score
             IN  IF score > 70
                 THEN /\ next_event_id' = next_event_id + 1
                      /\ security_events' =
                            deque_append(security_events,
                                         security_events'[Len(security_events')])
                      /\ security_events'[Len(security_events')].id = next_event_id'
                      /\ security_events'[Len(security_events')].event_type
                            = S_HIGH_RISK_RESOURCE
                      /\ security_events'[Len(security_events')].severity = "HIGH"
                 ELSE /\ next_event_id' = next_event_id
                      /\ security_events' = security_events]_vars
    /\ []((disc_cycles = 1 /\ disc_pc = "sleep") =>
             get_dashboard_data(security_events, resources_cache, active_threats, Now)
                 .high_risk_resources = next_event_id)

\* The first cycle is over with a resource at 0.7, one at 0.2 and one at 1.0 in
\* the lists, and one event.
C39_Witness ==
    /\ disc_cycles = 1
    /\ disc_pc = "sleep"
    /\ next_event_id = 1
    /\ \E p, q, r \in DOMAIN resources_cache :
          /\ \E i \in DOMAIN resources_cache[p] : resources_cache[p][i].risk_score = 70
          /\ \E i \in DOMAIN resources_cache[q] : resources_cache[q][i].risk_score = 20
          /\ \E i \in DOMAIN resources_cache[r] : resources_cache[r][i].risk_score = 100


\* The events of the window of one type.
WithinWindowOf(t) == {i \in WithinWindow : security_events[i].event_type = t}

\* C40: in every snapshot the counts of threat_trends add up to recent_events,
\* a type has an entry exactly when the 24-hour window holds an event of it,
\* and the entry is the number of those events, never zero.
C40_TrendsSumToRecentEvents ==
    dashboard # NoSnapshot =>
        LET trends == dashboard.threat_trends IN
        /\ SumOver(trends, DOMAIN trends) = dashboard.recent_events
        /\ DOMAIN trends = {security_events[i].event_type : i \in WithinWindow}
        /\ \A t \in DOMAIN trends :
              trends[t] = Cardinality(WithinWindowOf(t)) /\ trends[t] > 0

\* A snapshot of a window of nine events of one type and four of another,
\* behind an event of the first type that is too old.
C40_Witness ==
    /\ dashboard # NoSnapshot
    /\ dashboard.recent_events = 13
    /\ Len(security_events) = 14
    /\ dashboard.threat_trends[S_LOGIN_ATTEMPT] = 9
    /\ dashboard.threat_trends[S_CONFIG_CHANGE] = 4

====
